---- MODULE Spec2Model ----
(***************************************************************************)
(* Marvis (AI handyman assistant): the barcode -> project resolution       *)
(* pipeline and the per-session voice navigation state machine of          *)
(* src/unnamed/part_001 (the server's index.ts), with the BarcodeService   *)
(* of src/unnamed/part_000 and the DataIngestionService of                 *)
(* src/src/config/index.ts.                                                *)
(*                                                                         *)
(* The process is a single-threaded event loop.  One action of the model   *)
(* is one run-to-completion block of the code: from an external event (a   *)
(* connection, a transcription, a tool call, a network answer) to the next *)
(* await that really waits for the network.  An await on an already        *)
(* settled promise only yields to the microtask queue, so the code after   *)
(* it belongs to the same block.                                           *)
(***************************************************************************)
EXTENDS Integers, Sequences, FiniteSets, TLC

VARIABLES
    sessions,        \* this.sessions: session id -> session object (0: no entry)
    heap,            \* the session objects, by reference
    projectCache,    \* const projectCache: barcode -> Project
    CURRENT_BARCODE, \* let CURRENT_BARCODE
    cachedBarcode,   \* BarcodeService.cachedBarcode
    lastFetch,       \* BarcodeService.lastFetch
    cachedData,      \* DataIngestionService.cachedData
    dataLastFetch,   \* DataIngestionService.lastFetch
    transcriptionCleanups, \* this.transcriptionCleanups: the subscribed session ids
    tasks,           \* suspended async functions, in the order they were started
    now,             \* Date.now()
    config           \* the API keys that are configured

vars == <<sessions, heap, projectCache, CURRENT_BARCODE, cachedBarcode, lastFetch,
          cachedData, dataLastFetch, transcriptionCleanups, tasks, now, config>>

----------------------------------------------------------------------------
(* Bounds of the model *)

\* async functions suspended at the same time
MaxTasks == 2
\* clock ticks
MaxTicks == 1

Null == "null"
NoObj == 0
NoProject == [id |-> <<"none">>]
Free == [state |-> "free"]

\* the session objects: one slot per session id of the specification
ObjIds == DOMAIN heap

\* BarcodeService.cacheTimeout
cacheTimeout == 30000
\* one tick of the clock, in ms: the token's time to live
TickMs == cacheTimeout
\* DataIngestionService.cacheTimeout = 5 * 60 * 1000
dataCacheTimeout == 300000

----------------------------------------------------------------------------
(* Strings the code inspects are sequences of one-character strings *)

Lower(c) ==
    CASE c = "A" -> "a"
      [] c = "B" -> "b"
      [] c = "C" -> "c"
      [] c = "D" -> "d"
      [] c = "E" -> "e"
      [] c = "F" -> "f"
      [] c = "G" -> "g"
      [] c = "H" -> "h"
      [] c = "I" -> "i"
      [] c = "J" -> "j"
      [] c = "K" -> "k"
      [] c = "L" -> "l"
      [] c = "M" -> "m"
      [] c = "N" -> "n"
      [] c = "O" -> "o"
      [] c = "P" -> "p"
      [] c = "Q" -> "q"
      [] c = "R" -> "r"
      [] c = "S" -> "s"
      [] c = "T" -> "t"
      [] c = "U" -> "u"
      [] c = "V" -> "v"
      [] c = "W" -> "w"
      [] c = "X" -> "x"
      [] c = "Y" -> "y"
      [] c = "Z" -> "z"
      [] OTHER -> c

\* String.prototype.toLowerCase
toLowerCase(s) == [i \in 1..Len(s) |-> Lower(s[i])]

RECURSIVE trimStart(_)
trimStart(s) == IF s # <<>> /\ Head(s) = " " THEN trimStart(Tail(s)) ELSE s

RECURSIVE trimEnd(_)
trimEnd(s) ==
    IF s # <<>> /\ s[Len(s)] = " " THEN trimEnd(SubSeq(s, 1, Len(s) - 1)) ELSE s

\* String.prototype.trim
trim(s) == trimEnd(trimStart(s))

\* String.prototype.includes
includes(s, k) ==
    \E i \in 0..(Len(s) - Len(k)) : SubSeq(s, i + 1, i + Len(k)) = k

kwNext == <<"n","e","x","t">>
kwContinue == <<"c","o","n","t","i","n","u","e">>
kwForward == <<"f","o","r","w","a","r","d">>
kwBack == <<"b","a","c","k">>
kwPrevious == <<"p","r","e","v","i","o","u","s">>
kwLast == <<"l","a","s","t">>
kwRepeat == <<"r","e","p","e","a","t">>
kwAgain == <<"a","g","a","i","n">>
kwWhat == <<"w","h","a","t">>
kwStartOver == <<"s","t","a","r","t"," ","o","v","e","r">>
kwRestart == <<"r","e","s","t","a","r","t">>
kwBeginning == <<"b","e","g","i","n","n","i","n","g">>
kwNew == <<"n","e","w">>
kwAnother == <<"a","n","o","t","h","e","r">>
kwDifferent == <<"d","i","f","f","e","r","e","n","t">>

\* the transcriptions the model lets a user say (TranscriptionData.text)
Texts == {
    <<" ","N","e","x","t">>,
    <<"b","a","c","k">>,
    <<"w","h","a","t">>,
    <<"r","e","s","t","a","r","t">>,
    <<"n","e","w">>,
    <<"l","a","s","t"," ","n","e","x","t">>,
    <<"f","o","r","w","a","r","d">>,
    <<"h","i">>,
    <<" "," ">>
}

----------------------------------------------------------------------------
(* Projects and the step synthesizer *)

Step(i, t) == [id |-> i, title |-> t]

\* generateFallbackInstructions: the three literal templates
legoTemplate ==
    <<Step(1, "Open & Sort"), Step(2, "Follow Instructions"), Step(3, "Build Base"),
      Step(4, "Add Details"), Step(5, "Final Assembly")>>

furnitureTemplate ==
    <<Step(1, "Unpack All Parts"), Step(2, "Prepare Tools"), Step(3, "Assemble Frame"),
      Step(4, "Add Components"), Step(5, "Final Steps")>>

genericTemplate ==
    <<Step(1, "Preparation"), Step(2, "Initial Assembly"), Step(3, "Continue Building"),
      Step(4, "Final Assembly"), Step(5, "Completion")>>

kwLego == <<"l","e","g","o">>
kwShelf == <<"s","h","e","l","f">>
kwTable == <<"t","a","b","l","e">>
kwDesk == <<"d","e","s","k">>
kwChair == <<"c","h","a","i","r">>

\* the furniture keywords tested before "lego"
generateFallbackInstructions_FurnitureFirst(productTitle) ==
    LET t == toLowerCase(productTitle)
    IN IF \/ includes(t, kwShelf) \/ includes(t, kwTable)
          \/ includes(t, kwDesk) \/ includes(t, kwChair) THEN furnitureTemplate
       ELSE IF includes(t, kwLego) THEN legoTemplate
       ELSE genericTemplate

generateFallbackInstructions(productTitle) ==
    LET t == toLowerCase(productTitle)
        isLego == includes(t, kwLego)
        isFurniture == \/ includes(t, kwShelf)
                       \/ includes(t, kwTable)
                       \/ includes(t, kwDesk)
                       \/ includes(t, kwChair)
    IN IF isLego THEN legoTemplate
       ELSE IF isFurniture THEN furnitureTemplate
       ELSE genericTemplate

\* a JSON null inside the generated array
NullStep == Step(-1, "null")

\* The text of the generation provider's answer, as a sequence of tokens:
\* "[" and "]", ",", null, a step object {"id": id, "title": title, ...},
\* and "x" for any other text.
Tok(t) == [t |-> t, id |-> 0, title |-> ""]
LBr == Tok("[")
RBr == Tok("]")
Comma == Tok(",")
JNull == Tok("null")
Prose == Tok("x")
Obj(i, title) == [t |-> "obj", id |-> i, title |-> title]

\* content.match(/\[[\s\S]*\]/): from the first "[" to the last "]" after
\* it (the quantifier is greedy); <<>> when there is no match
jsonMatch(content) ==
    LET opens == {i \in 1..Len(content) : content[i] = LBr}
        closes == {j \in 1..Len(content) : content[j] = RBr}
    IN IF opens = {} THEN <<>>
       ELSE LET i == CHOOSE x \in opens : \A y \in opens : x <= y
                after == {j \in closes : j > i}
            IN IF after = {} THEN <<>>
               ELSE SubSeq(content, i, CHOOSE x \in after : \A y \in after : y <= x)

\* JSON.parse of a matched text accepts "[" value ("," value)* "]" and
\* "[" "]", the values being step objects and null
parses(m) ==
    LET inner == SubSeq(m, 2, Len(m) - 1) IN
    \/ inner = <<>>
    \/ /\ Len(inner) % 2 = 1
       /\ \A k \in 1..Len(inner) :
            IF k % 2 = 1 THEN inner[k].t \in {"obj", "null"} ELSE inner[k] = Comma

JSONparse(m) ==
    LET inner == SubSeq(m, 2, Len(m) - 1) IN
    [k \in 1..((Len(inner) + 1) \div 2) |->
        IF inner[2 * k - 1].t = "null" THEN NullStep
        ELSE Step(inner[2 * k - 1].id, inner[2 * k - 1].title)]

\* generateInstructionsFromPDF.  resp is the generation provider's answer:
\*   kind "error"  the request failed (401, 429, network)
\*   kind "text"   the request succeeded with the text resp.content
\* The logging loop over the parsed steps reads step.title, which throws on a
\* null element; every throw is caught and the template is returned.
\* without the catch around the request and the parse: nothing is returned
generateInstructionsFromPDF_NoCatch(productTitle, pdfUrl, resp) ==
    IF "anthropic" \notin config THEN generateFallbackInstructions(productTitle)
    ELSE IF resp.kind = "error" THEN <<>>
    ELSE LET m == jsonMatch(resp.content) IN
         IF m = <<>> THEN generateFallbackInstructions(productTitle)
         ELSE IF ~parses(m) THEN <<>>
         ELSE JSONparse(m)

generateInstructionsFromPDF(productTitle, pdfUrl, resp) ==
    IF "anthropic" \notin config THEN generateFallbackInstructions(productTitle)
    ELSE IF resp.kind = "error" THEN generateFallbackInstructions(productTitle)
    ELSE LET m == jsonMatch(resp.content) IN
         IF m = <<>> THEN generateFallbackInstructions(productTitle)
         ELSE IF ~parses(m) THEN generateFallbackInstructions(productTitle)
         ELSE LET steps == JSONparse(m) IN
              IF \E i \in 1..Len(steps) : steps[i] = NullStep
              THEN generateFallbackInstructions(productTitle)
              ELSE steps

\* the key of projectCache and the id of a pipeline project: `barcode_${barcode}`
BarcodeId(b) == <<"barcode_", b>>
S3Id == <<"s3_product">>

MkProject(pid, name, source, steps) ==
    [id |-> pid, name |-> name, totalSteps |-> Len(steps), source |-> source,
     steps |-> steps]

\* the 3-step project of the secondary-provider path (lines 725-755)
\* a project of two steps
ExaProject_TwoSteps(b, name) ==
    [id |-> BarcodeId(b), name |-> name, totalSteps |-> 2, source |-> "barcode",
     steps |-> <<Step(1, "Preparation"), Step(2, "Completion")>>]

ExaProject(b, name) ==
    [id |-> BarcodeId(b), name |-> name, totalSteps |-> 3, source |-> "barcode",
     steps |-> <<Step(1, "Preparation"), Step(2, "Assembly"), Step(3, "Completion")>>]

kwPdf == <<"p", "d", "f">>
kwDotPdf == <<".", "p", "d", "f">>
kwInstructions == <<"i", "n", "s", "t", "r", "u", "c", "t", "i", "o", "n", "s">>
rebrickableInstructions == <<"r", "e", "b", "r", "i", "c", "k", "a", "b", "l", "e", ".", "c", "o", "m", "/", "i", "n", "s", "t", "r", "u", "c", "t", "i", "o", "n", "s", "/">>
legoBuildingInstructions == <<"l", "e", "g", "o", ".", "c", "o", "m", "/", "s", "e", "r", "v", "i", "c", "e", "/", "b", "u", "i", "l", "d", "i", "n", "g", "i", "n", "s", "t", "r", "u", "c", "t", "i", "o", "n", "s", "/">>
rebrickable == <<"r", "e", "b", "r", "i", "c", "k", "a", "b", "l", "e", ".", "c", "o", "m">>
brickset == <<"b", "r", "i", "c", "k", "s", "e", "t", ".", "c", "o", "m">>
bricklink == <<"b", "r", "i", "c", "k", "l", "i", "n", "k", ".", "c", "o", "m">>

\* String.prototype.endsWith
endsWith(s, k) == Len(s) >= Len(k) /\ SubSeq(s, Len(s) - Len(k) + 1, Len(s)) = k

\* a title that is not a string (a number in the provider's JSON): it has
\* no toLowerCase
NotAString == <<"#number">>

\* an item of a transformed search response; "" stands for a missing field
Item(link, title, fileFormat, mime) ==
    [link |-> link, title |-> title, fileFormat |-> fileFormat, mime |-> mime]

\* the isPDF disjunction of lines 557-570, evaluated left to right:
\* "true", "false", or "throw" when title.toLowerCase is reached for a title
\* that is not a string
isPDF(item) ==
    LET url == item.link
        title == item.title
    IN IF \/ endsWith(toLowerCase(url), kwDotPdf)
          \/ includes(toLowerCase(url), kwDotPdf)
          \/ includes(toLowerCase(item.fileFormat), kwPdf)
          \/ includes(toLowerCase(item.mime), kwPdf)
       THEN "true"
       ELSE IF title = NotAString THEN "throw"
       ELSE IF \/ includes(toLowerCase(title), kwPdf)
               \/ includes(url, rebrickableInstructions)
               \/ includes(url, legoBuildingInstructions)
               \/ /\ includes(toLowerCase(title), kwInstructions)
                  /\ \/ includes(url, rebrickable)
                     \/ includes(url, brickset)
                     \/ includes(url, bricklink)
                     \/ includes(toLowerCase(title), kwLego)
       THEN "true"
       ELSE "false"

NoPDF == [kind |-> "null"]
Thrown == [kind |-> "throw"]

\* the candidate of an item: the object of lines 574-580
Candidate(item) ==
    [kind |-> "pdf", title |-> item.title, url |-> item.link,
     fileFormat |-> item.fileFormat, mimeType |-> item.mime]

\* the loop that keeps the last match instead of returning at the first
findFirstValidPDF_LastMatch(items) ==
    LET S == {k \in 1..Len(items) : isPDF(items[k]) = "true"}
    IN IF S = {} THEN NoPDF
       ELSE Candidate(items[CHOOSE k \in S : \A j \in S : j <= k])

\* findFirstValidPDF: the candidate of the first item whose isPDF holds,
\* NoPDF when there is none, Thrown when the evaluation throws before
RECURSIVE findFirstValidPDF(_)
findFirstValidPDF(items) ==
    IF items = <<>> THEN NoPDF
    ELSE IF isPDF(Head(items)) = "throw" THEN Thrown
    ELSE IF isPDF(Head(items)) = "true"
         THEN Candidate(Head(items))
    ELSE findFirstValidPDF(Tail(items))

\* the loop without its break: the last query with a non-empty result
fallbackLoop_NoBreak(o, i) ==
    LET H == {k \in i..5 : "serpapi" \in config /\ o.prim[k]}
    IN IF H = {} THEN 0 ELSE CHOOSE k \in H : \A j \in H : j <= k

\* the fallback loop of lines 704-714 over the four deterministic queries:
\* the number of the first query (2..5) with a non-empty result, 0 when none
RECURSIVE fallbackLoop(_, _)
fallbackLoop(o, i) ==
    IF i > 5 THEN 0
    ELSE IF "serpapi" \in config /\ o.prim[i] THEN i
    ELSE fallbackLoop(o, i + 1)

\* the query composed whether or not the key is set
identifyProductFromBarcode_NoKeyCheck(b, o) == o.idq

\* identifyProductFromBarcode: null without a request when the key is unset
identifyProductFromBarcode(b, o) == IF "cerebras" \in config THEN o.idq ELSE <<>>

\* searchWithExa: null without a request when the key is unset
searchWithExa(q, o) == IF "exa" \in config THEN o.exa ELSE "none"

\* a call of a stage function with its argument
Call(fn, q) == [fn |-> fn, q |-> q]

\* fallbackQueries, lines 697-702
fallbackQueries(b) == << <<b, " product">>, <<"UPC ", b>>, <<"barcode ", b>>, <<b>> >>

\* the searchWithGoogle calls of the identification stage, given the index
\* (1 the generated query, 2..5 the fallback queries, 0 none) of the call
\* that returned items: the loop breaks there
primaryCalls(b, idq, hit) ==
    <<Call("searchWithGoogle", idq)>>
        \o [k \in 1..(IF hit = 0 THEN 4 ELSE hit - 1) |->
                Call("searchWithGoogle", fallbackQueries(b)[k])]

instructionQuery == <<"i","q">>

\* processVoiceCommandWithAI after a cache miss, lines 682-858, up to the
\* write to projectCache.  o holds the answers of the providers:
\*   o.idq    the product-identification query ("" when absent)
\*   o.prim   for the generated query (1) and the fallback queries (2..5),
\*            whether the primary search returns items
\*   o.exa    "none" | "titled" | "untitled": the secondary provider's answer
\*   o.title  the identified product title ("" when absent)
\*   o.iq     whether an instruction query is generated
\*   o.pdf, o.reg   the items of the PDF search and of the regular search
\*   o.gen    the generation provider's answer to the step request
\* The result: the Project (or NoProject), whether it is written to the
\* cache, the manual's url, and the calls of the stage functions in order.
\* the try block of lines 682-858.  raised: an exception leaves the block
PipelineTry(b, o) ==
    LET idq == identifyProductFromBarcode(b, o)
        first == "serpapi" \in config /\ o.prim[1]
        hit == IF first THEN 1 ELSE fallbackLoop(o, 2)
        exa == searchWithExa(idq, o)
        title == o.title
        pdfItems == IF "serpapi" \in config THEN o.pdf ELSE <<>>
        items == IF pdfItems # <<>> THEN pdfItems
                 ELSE IF "serpapi" \in config THEN o.reg ELSE <<>>
        firstPDF == findFirstValidPDF(items)
        url == IF firstPDF.kind = "pdf" THEN firstPDF.url ELSE <<>>
        steps == generateInstructionsFromPDF(title, url, o.gen)
        c0 == <<Call("identifyProductFromBarcode", <<b>>)>>
        c1 == c0 \o primaryCalls(b, idq, hit)
        c2 == c1 \o <<Call("analyzeProductFromGoogleResults", <<b>>)>>
        c3 == c2 \o <<Call("generateInstructionQuery", title)>>
        c4 == c3 \o <<Call("searchGoogleForPDFs", instructionQuery)>>
                 \o (IF pdfItems = <<>>
                     THEN <<Call("searchWithGoogle", instructionQuery)>> ELSE <<>>)
        c5 == c4 \o <<Call("generateInstructionsFromPDF", title)>>
        absent(c) == [result |-> NoProject, write |-> FALSE, pdfUrl |-> NoPDF,
                      calls |-> c, raised |-> FALSE]
    IN IF idq = <<>> THEN absent(c0)
       ELSE IF hit = 0
            THEN IF exa = "none" THEN absent(c1 \o <<Call("searchWithExa", idq)>>)
                 ELSE [result |-> ExaProject(b, IF exa = "titled" THEN o.exaTitle ELSE idq),
                       write |-> FALSE, pdfUrl |-> NoPDF,
                       calls |-> c1 \o <<Call("searchWithExa", idq)>>, raised |-> FALSE]
       ELSE IF title = <<>> THEN absent(c2)
       ELSE IF ~o.iq THEN absent(c3)
       ELSE IF firstPDF = Thrown THEN [absent(c4) EXCEPT !.raised = TRUE]
       ELSE [result |-> MkProject(BarcodeId(b), title, "barcode", steps),
             write |-> TRUE, pdfUrl |-> firstPDF, calls |-> c5, raised |-> FALSE]

\* the catch block rethrowing
PipelineCatch_Rethrow(p) == p

\* catch (error) { return null }, lines 859-862
PipelineCatch(p) ==
    [p EXCEPT !.result = NoProject, !.write = FALSE, !.pdfUrl = NoPDF, !.raised = FALSE]

Pipeline(b, o) ==
    IF PipelineTry(b, o).raised THEN PipelineCatch(PipelineTry(b, o))
    ELSE PipelineTry(b, o)

----------------------------------------------------------------------------
(* The session state machine.  The handlers are functions of the "world" w: *)
(* a record of the mutable program state, plus what the block has done so   *)
(* far (w.shown: the calls of showInstructionStep, w.threw: an exception is *)
(* propagating, w.moves: the assignments to state.state as <<old, new>>).   *)

\* Map.prototype.set on a map kept as a function
MapSet(m, k, v) == [x \in (DOMAIN m) \cup {k} |-> IF x = k THEN v ELSE m[x]]
EmptyMap == <<>>

\* one state object shared by every session id
sessionsGet_Shared(w, key) ==
    LET S == {x \in DOMAIN w.sessions : w.sessions[x] # NoObj}
    IN IF S = {} THEN NoObj ELSE w.sessions[CHOOSE x \in S : TRUE]

\* this.sessions.get(key)
sessionsGet(w, key) == IF key \in DOMAIN w.sessions THEN w.sessions[key] ELSE NoObj

\* the object onSession creates (lines 914-920)
NewSession ==
    [state |-> "welcome", currentProject |-> NoProject, currentStep |-> 0,
     availableProjects |-> EmptyMap, stepsGenerated |-> FALSE]

\* an assignment to state.state
setPhase(w, o, phase) ==
    [w EXCEPT !.heap[o].state = phase,
              !.moves = Append(@, <<w.heap[o].state, phase>>)]

\* showInstructionStep: project.steps[stepIndex] is undefined outside the
\* array and reading step.title then throws a TypeError
showInstructionStep(w, project, stepIndex) ==
    [w EXCEPT !.shown = Append(@, [pid |-> project.id, idx |-> stepIndex,
                                   total |-> project.totalSteps]),
              !.threw = stepIndex < 0 \/ stepIndex >= Len(project.steps)]

\* handleNextStep without its test of the last index
handleNextStep_NoLast(w, sid) ==
    LET o == sessionsGet(w, sid) IN
    IF o = NoObj THEN w
    ELSE LET st == w.heap[o] IN
    IF st.currentProject = NoProject THEN w
    ELSE showInstructionStep(
             [w EXCEPT !.heap[o].currentStep = st.currentStep + 1],
             st.currentProject, st.currentStep + 1)

handleNextStep(w, sid) ==
    LET o == sessionsGet(w, sid) IN
    IF o = NoObj THEN w
    ELSE LET st == w.heap[o] IN
    IF st.currentProject = NoProject THEN w
    ELSE IF st.currentStep < st.currentProject.totalSteps - 1
    THEN showInstructionStep(
             [w EXCEPT !.heap[o].currentStep = st.currentStep + 1],
             st.currentProject, st.currentStep + 1)
    ELSE setPhase(w, o, "completed")

\* handlePreviousStep without its test of the first index
handlePreviousStep_NoFirst(w, sid) ==
    LET o == sessionsGet(w, sid) IN
    IF o = NoObj THEN w
    ELSE LET st == w.heap[o] IN
    IF st.currentProject = NoProject THEN w
    ELSE showInstructionStep(
             [w EXCEPT !.heap[o].currentStep = st.currentStep - 1],
             st.currentProject, st.currentStep - 1)

handlePreviousStep(w, sid) ==
    LET o == sessionsGet(w, sid) IN
    IF o = NoObj THEN w
    ELSE LET st == w.heap[o] IN
    IF st.currentProject = NoProject \/ st.currentStep <= 0 THEN w
    ELSE showInstructionStep(
             [w EXCEPT !.heap[o].currentStep = st.currentStep - 1],
             st.currentProject, st.currentStep - 1)

\* handleNewProject that leaves the finished project active
handleNewProject_KeepsProject(w, sid) ==
    LET o == sessionsGet(w, sid) IN
    IF o = NoObj THEN w
    ELSE [setPhase(w, o, "selecting") EXCEPT
                   !.heap[o].currentStep = 0,
                   !.heap[o].stepsGenerated = FALSE]

handleNewProject(w, sid) ==
    LET o == sessionsGet(w, sid) IN
    IF o = NoObj THEN w
    ELSE [setPhase(w, o, "selecting") EXCEPT
                   !.heap[o].currentStep = 0,
                   !.heap[o].currentProject = NoProject,
                   !.heap[o].stepsGenerated = FALSE]

\* handleProjectSelection that activates the project and keeps the phase
handleProjectSelection_KeepsPhase(w, sid, projectId) ==
    LET o == sessionsGet(w, sid) IN
    IF o = NoObj THEN w
    ELSE LET st == w.heap[o] IN
    IF projectId \notin DOMAIN st.availableProjects THEN w
    ELSE LET project == st.availableProjects[projectId] IN
         showInstructionStep(
             [w EXCEPT !.heap[o].currentProject = project,
                       !.heap[o].currentStep = 0],
             project, 0)

handleProjectSelection(w, sid, projectId) ==
    LET o == sessionsGet(w, sid) IN
    IF o = NoObj THEN w
    ELSE LET st == w.heap[o] IN
    IF projectId \notin DOMAIN st.availableProjects THEN w
    ELSE LET project == st.availableProjects[projectId] IN
         showInstructionStep(
             [setPhase(w, o, "building") EXCEPT
                       !.heap[o].currentProject = project,
                       !.heap[o].currentStep = 0],
             project, 0)

isNextCommand(command) ==
    includes(command, kwNext) \/ includes(command, kwContinue)
        \/ includes(command, kwForward)

isBackCommand(command) ==
    includes(command, kwBack) \/ includes(command, kwPrevious)
        \/ includes(command, kwLast)

isRepeatCommand(command) ==
    includes(command, kwRepeat) \/ includes(command, kwAgain)
        \/ includes(command, kwWhat)

isRestartCommand(command) ==
    includes(command, kwStartOver) \/ includes(command, kwRestart)
        \/ includes(command, kwBeginning)

isNewCommand(command) ==
    includes(command, kwNew) \/ includes(command, kwAnother)
        \/ includes(command, kwDifferent)

\* the building branch with the restart test before the repeat test
navigate_RestartFirst(w, sid, o, command) ==
    LET st == w.heap[o] IN
    IF isNextCommand(command) THEN handleNextStep(w, sid)
    ELSE IF isBackCommand(command) THEN handlePreviousStep(w, sid)
    ELSE IF isRestartCommand(command)
         THEN showInstructionStep([w EXCEPT !.heap[o].currentStep = 0],
                                  st.currentProject, 0)
    ELSE IF isRepeatCommand(command)
         THEN showInstructionStep(w, st.currentProject, st.currentStep)
    ELSE w

\* the building branch whose restart renders step 0 and keeps the index
navigate_RestartRendersOnly(w, sid, o, command) ==
    LET st == w.heap[o] IN
    IF isNextCommand(command) THEN handleNextStep(w, sid)
    ELSE IF isBackCommand(command) THEN handlePreviousStep(w, sid)
    ELSE IF isRepeatCommand(command)
         THEN showInstructionStep(w, st.currentProject, st.currentStep)
    ELSE IF isRestartCommand(command)
         THEN showInstructionStep(w, st.currentProject, 0)
    ELSE w

\* the building branch that takes a command without keyword for "next"
navigate_DefaultNext(w, sid, o, command) ==
    LET st == w.heap[o] IN
    IF isBackCommand(command) /\ ~isNextCommand(command) THEN handlePreviousStep(w, sid)
    ELSE IF isRepeatCommand(command) /\ ~isNextCommand(command)
         THEN showInstructionStep(w, st.currentProject, st.currentStep)
    ELSE IF isRestartCommand(command) /\ ~isNextCommand(command)
         THEN showInstructionStep([w EXCEPT !.heap[o].currentStep = 0],
                                  st.currentProject, 0)
    ELSE handleNextStep(w, sid)

\* the building branch of processVoiceCommand (lines 1106-1131)
navigate(w, sid, o, command) ==
    LET st == w.heap[o] IN
    IF isNextCommand(command) THEN handleNextStep(w, sid)
    ELSE IF isBackCommand(command) THEN handlePreviousStep(w, sid)
    ELSE IF isRepeatCommand(command)
         THEN showInstructionStep(w, st.currentProject, st.currentStep)
    ELSE IF isRestartCommand(command)
         THEN showInstructionStep([w EXCEPT !.heap[o].currentStep = 0],
                                  st.currentProject, 0)
    ELSE w

processVoiceCommand(w, sid, command) ==
    LET o == sessionsGet(w, sid) IN
    IF o = NoObj THEN w
    ELSE LET st == w.heap[o] IN
    IF st.state = "welcome" THEN w
    ELSE IF st.state = "selecting"
    THEN IF /\ w.CURRENT_BARCODE # Null
            /\ BarcodeId(w.CURRENT_BARCODE) \in DOMAIN st.availableProjects
         THEN handleProjectSelection(w, sid, BarcodeId(w.CURRENT_BARCODE))
         ELSE IF S3Id \in DOMAIN st.availableProjects
         THEN handleProjectSelection(w, sid, S3Id)
         ELSE w
    ELSE IF st.state = "building" /\ st.currentProject # NoProject
    THEN navigate(w, sid, o, command)
    ELSE IF st.state = "completed" /\ isNewCommand(command)
    THEN handleNewProject(w, sid)
    ELSE w

----------------------------------------------------------------------------
(* Suspended async functions.  A task is                                    *)
(*   kind "voice"    handleVoiceTranscription, at pc                        *)
(*        "barcode"  await this.updateCurrentBarcode()        (line 1051)   *)
(*        "pipeline" await processVoiceCommandWithAI, in its network calls  *)
(*        "upload"   ... in await uploadProjectToS3      (lines 819, 856)   *)
(*   kind "connect"  onSession at await this.updateCurrentBarcode() (924)   *)
(*   kind "loadS3"   loadS3Data at await fetchProductData()          (930)  *)
(*   kind "identify" onToolCall at await getDeviceIdentification()   (966)  *)
(* obj is the session object the function holds in its variable `state`,    *)
(* t0 the `now` getCurrentBarcode read before its request, overtaken the    *)
(* history flag: a command that arrived later has changed the session.      *)

Unsettled == [id |-> <<"unsettled">>]
NoCall == [barcode |-> Null]

Task(kind, sid, obj, cmd, pc) ==
    [kind |-> kind, sid |-> sid, obj |-> obj, cmd |-> cmd, pc |-> pc,
     t0 |-> IF pc = "barcode" THEN now ELSE 0,
     barcode |-> Null, project |-> NoProject, overtaken |-> FALSE]

\* w.returned of a block in which waitForNewBarcode has not returned
NoReturn == "pending"

World ==
    [sessions |-> sessions, heap |-> heap, projectCache |-> projectCache,
     CURRENT_BARCODE |-> CURRENT_BARCODE, cachedBarcode |-> cachedBarcode,
     lastFetch |-> lastFetch, cachedData |-> cachedData,
     dataLastFetch |-> dataLastFetch,
     transcriptionCleanups |-> transcriptionCleanups, tasks |-> tasks,
     shown |-> <<>>, threw |-> FALSE, moves |-> <<>>, resolve |-> NoCall,
     settled |-> Unsettled, returned |-> NoReturn]

RemoveAt(q, i) == [j \in 1..(Len(q) - 1) |-> IF j < i THEN q[j] ELSE q[j + 1]]

\* the function suspends: a new task (i = 0) joins the queue, a resumed one
\* keeps its place
putTask(w, i, t) ==
    IF i = 0 THEN [w EXCEPT !.tasks = Append(@, t)]
    ELSE [w EXCEPT !.tasks[i] = t]

\* the function returns
dropTask(w, i) == IF i = 0 THEN w ELSE [w EXCEPT !.tasks = RemoveAt(@, i)]

\* what a command can change of a session
View(st) ==
    IF st = Free THEN <<"free">>
    ELSE <<st.state, st.currentStep, st.currentProject>>

\* history: a block of the command at place i of the queue (0: a command
\* that has just arrived) changed session object o; the commands of o that
\* arrived before it and are still suspended have been overtaken
markOvertaken(w, o, i) ==
    [w EXCEPT !.tasks =
        [j \in 1..Len(w.tasks) |->
            IF /\ w.tasks[j].kind = "voice"
               /\ w.tasks[j].obj = o
               /\ (i = 0 \/ j < i)
            THEN [w.tasks[j] EXCEPT !.overtaken = TRUE]
            ELSE w.tasks[j]]]

\* lines 1057-1073 of handleVoiceTranscription: processVoiceCommandWithAI has
\* settled with aiProject (NoProject: null).  `state` is the object the
\* function read at its start, whatever this.sessions holds by now.
settle(w, t, i, aiProject) ==
    LET w1 == dropTask(w, i)
        w2 == IF aiProject # NoProject
              THEN LET a == [w1 EXCEPT
                            !.heap[t.obj].availableProjects =
                                MapSet(@, aiProject.id, aiProject),
                            !.heap[t.obj].stepsGenerated = TRUE,
                            !.sessions[t.sid] = t.obj]
                       b == handleProjectSelection(a, t.sid, aiProject.id)
                   IN \* catch (error), line 1066
                      [b EXCEPT !.threw = FALSE]
              ELSE w1
        w3 == processVoiceCommand(w2, t.sid, t.cmd)
        changed == View(w3.heap[t.obj]) # View(heap[t.obj])
        w4 == IF changed THEN markOvertaken(w3, t.obj, i) ELSE w3
    IN [w4 EXCEPT !.settled = aiProject]

\* the call processVoiceCommandWithAI(command, CURRENT_BARCODE, session) up to
\* its first network request: the cache check of lines 663-680, and
\* identifyProductFromBarcode returning null without a request when no
\* Cerebras key is configured
resolveCall_NoCheck(w, t, i) ==
    LET b == w.CURRENT_BARCODE
        tb == [t EXCEPT !.barcode = b, !.pc = "pipeline", !.t0 = 0]
        w1 == [w EXCEPT !.resolve = [barcode |-> b, hit |-> FALSE]]
    IN IF "cerebras" \notin config THEN settle(w1, tb, i, NoProject)
       ELSE putTask(w1, i, tb)

resolveCall(w, t, i) ==
    LET b == w.CURRENT_BARCODE
        hit == w.projectCache[b] # NoProject
        tb == [t EXCEPT !.barcode = b, !.pc = "pipeline", !.t0 = 0]
        w1 == [w EXCEPT !.resolve = [barcode |-> b, hit |-> hit]]
    IN IF hit THEN settle(w1, tb, i, w.projectCache[b])
       ELSE IF "cerebras" \notin config THEN settle(w1, tb, i, NoProject)
       ELSE putTask(w1, i, tb)

\* updateCurrentBarcode after getCurrentBarcode gave `barcode`
setCurrentBarcode(w, barcode) ==
    IF barcode # Null /\ barcode # w.CURRENT_BARCODE
    THEN [w EXCEPT !.CURRENT_BARCODE = barcode] ELSE w

\* getCurrentBarcode: the cached token is returned without a request
\* a service that never trusts its cache
barcodeIsFresh_Never(w) == FALSE

barcodeIsFresh(w) ==
    w.cachedBarcode # Null /\ (now - w.lastFetch) < cacheTimeout

\* getCurrentBarcode after its request: resp is [kind |-> "ok", barcode |-> b],
\* [kind |-> "empty"] (a body without barcode) or [kind |-> "error"]
barcodeFetched(w, t0, resp) ==
    IF resp.kind = "ok"
    THEN [w |-> [w EXCEPT !.cachedBarcode = resp.barcode, !.lastFetch = t0],
          barcode |-> resp.barcode]
    ELSE IF resp.kind = "empty" THEN [w |-> w, barcode |-> Null]
    ELSE [w |-> w, barcode |-> w.cachedBarcode]

\* clearCache (part_000 lines 84-88)
clearCache == [World EXCEPT !.cachedBarcode = Null, !.lastFetch = 0]

\* waitForNewBarcode (part_000 lines 61-82), suspended in its loop:
\* previous is its argument (Null when omitted), attempt the loop counter,
\* pc "waitFetch" in the request of getCurrentBarcode, "waitDelay" in the
\* 3 s timer between two attempts
maxAttempts == 10

WaitTask(previous, attempt) ==
    [Task("wait", "", NoObj, <<>>, "waitFetch") EXCEPT !.t0 = now]
        @@ [previous |-> previous, attempt |-> attempt]

\* the loop that never gives up
waitObserved_NoLimit(w, i, t, currentBarcode) ==
    IF currentBarcode # Null /\ currentBarcode # t.previous
    THEN [dropTask(w, i) EXCEPT !.returned = currentBarcode]
    ELSE putTask(w, i, [t EXCEPT !.pc = "waitDelay", !.t0 = 0])

\* the loop body after getCurrentBarcode gave currentBarcode (lines 70-77),
\* and the return after the loop (lines 80-81)
waitObserved(w, i, t, currentBarcode) ==
    IF currentBarcode # Null /\ currentBarcode # t.previous
    THEN [dropTask(w, i) EXCEPT !.returned = currentBarcode]
    ELSE IF t.attempt < maxAttempts
         THEN putTask(w, i, [t EXCEPT !.pc = "waitDelay", !.t0 = 0])
    ELSE [dropTask(w, i) EXCEPT !.returned = Null]

\* one iteration up to await this.getCurrentBarcode() (line 68)
waitAttempt(w, i, t) ==
    IF barcodeIsFresh(w) THEN waitObserved(w, i, t, w.cachedBarcode)
    ELSE putTask(w, i, [t EXCEPT !.pc = "waitFetch", !.t0 = now])

waitForNewBarcode(previousBarcode) == waitAttempt(World, 0, WaitTask(previousBarcode, 1))

\* the request of getCurrentBarcode made by the loop is answered
waitFetched(i, resp) ==
    LET r == barcodeFetched(World, tasks[i].t0, resp)
    IN waitObserved(r.w, i, tasks[i], r.barcode)

\* the timer of line 76 fires: the next attempt
waitDelayed(i) == waitAttempt(World, i, [tasks[i] EXCEPT !.attempt = @ + 1])

\* handleVoiceTranscription after await this.updateCurrentBarcode()
afterBarcode(w, t, i) ==
    IF w.CURRENT_BARCODE = Null THEN dropTask(w, i)
    ELSE resolveCall(w, t, i)

\* handleVoiceTranscription from its start (lines 1027-1051)
handleVoiceTranscription(w, sid, data) ==
    LET o == sessionsGet(w, sid)
        command == trim(toLowerCase(data.text))
    IN IF o = NoObj THEN w
       ELSE IF ~data.isFinal THEN w
       ELSE IF command = <<>> THEN w
       ELSE LET st == w.heap[o]
                t == Task("voice", sid, o, command, "barcode")
                direct ==
                    /\ st.state = "building"
                    /\ \/ includes(command, kwNext) \/ includes(command, kwContinue)
                       \/ includes(command, kwBack) \/ includes(command, kwPrevious)
                       \/ includes(command, kwRepeat) \/ includes(command, kwAgain)
                       \/ includes(command, kwStartOver) \/ includes(command, kwRestart)
            IN IF direct THEN processVoiceCommand(w, sid, command)
               ELSE IF st.state = "welcome" /\ ~st.stepsGenerated
               THEN IF barcodeIsFresh(w)
                    THEN afterBarcode(setCurrentBarcode(w, w.cachedBarcode), t, 0)
                    ELSE putTask(w, 0, t)
               ELSE processVoiceCommand(w, sid, command)

\* the Project loadS3Data builds from the hosted dataset (lines 934-946)
S3Project(data) ==
    MkProject(S3Id, <<"s","3">>, "s3", [k \in 1..data.nSteps |-> Step(k, "Step")])

NoData == [nSteps |-> -1]

\* loadS3Data after await fetchProductData() gave s3Data
loadedS3(w, sid, s3Data) ==
    LET o == sessionsGet(w, sid) IN
    IF s3Data = NoData \/ o = NoObj THEN w
    ELSE [w EXCEPT !.heap[o].availableProjects = MapSet(@, S3Id, S3Project(s3Data))]

\* fetchProductData: the cached data is returned without a request
dataIsFresh(w) ==
    w.cachedData # NoData /\ (now - w.dataLastFetch) < dataCacheTimeout

\* fetchProductData after its request: resp is the data, or NoData on error
dataFetched(w, resp) ==
    IF resp = NoData THEN w
    ELSE [w EXCEPT !.cachedData = resp, !.dataLastFetch = now]

\* onToolCall, cases next_step and previous_step (lines 972-988)
toolStep(w, key, toolId) ==
    LET o == sessionsGet(w, key) IN
    IF o = NoObj THEN w
    ELSE LET st == w.heap[o] IN
    IF toolId = "next_step"
    THEN IF /\ st.currentProject # NoProject
            /\ st.currentStep < st.currentProject.totalSteps - 1
         THEN [w EXCEPT !.heap[o].currentStep = st.currentStep + 1]
         ELSE w
    ELSE IF toolId = "previous_step"
    THEN IF st.currentProject # NoProject /\ st.currentStep > 0
         THEN [w EXCEPT !.heap[o].currentStep = st.currentStep - 1]
         ELSE w
    ELSE w

----------------------------------------------------------------------------
(* The environment: what the providers and the user may answer or say *)

AllKeys == {"cerebras", "serpapi", "exa", "anthropic"}
Configs == {AllKeys}

BarcodeResponses ==
    {[kind |-> "ok", barcode |-> b] : b \in DOMAIN projectCache}
        \cup {[kind |-> "empty", barcode |-> Null], [kind |-> "error", barcode |-> Null]}

DataResponses == {NoData, [nSteps |-> 2]}

Transcriptions ==
    {[isFinal |-> TRUE, text |-> x] : x \in Texts}
        \cup {[isFinal |-> FALSE, text |-> <<"n","e","x","t">>]}

ToolIds == {"next_step", "previous_step", "identify_device"}

GenStep(i) == Step(i, "generated")
GenObj(i) == Obj(i, "generated")
\* the text of a JSON array of two steps, and the text "[]"
TwoSteps == [kind |-> "text", content |-> <<LBr, GenObj(1), Comma, GenObj(2), RBr>>]
NoSteps == [kind |-> "text", content |-> <<LBr, RBr>>]

\* search items: a link to a PDF, a shop page, a link with .PDF in its
\* middle, a page whose title says pdf, a page titled with instructions for a
\* kit, an item marked as PDF by the PDF search, an item on an instructions
\* site, and an item whose title is a number
ItPdf == Item(<<"m", ".", "p", "d", "f">>, <<"M", "a", "n", "u", "a", "l">>, <<>>, <<>>)
ItPage == Item(<<"s", "h", "o", "p">>, <<"S", "h", "o", "p">>, <<>>, <<>>)
ItGuide == Item(<<"g", ".", "P", "D", "F", "?", "x">>, <<"G", "u", "i", "d", "e">>, <<>>, <<>>)
ItTitled == Item(<<"d", "o", "c">>, <<"K", "i", "t", " ", "P", "D", "F">>, <<>>, <<>>)
ItKit == Item(<<"k", "i", "t", "s">>, <<"L", "E", "G", "O", " ", "I", "n", "s", "t", "r", "u", "c", "t", "i", "o", "n", "s">>, <<>>, <<>>)
ItMime == Item(<<"f", "i", "l", "e">>, <<"F", "i", "l", "e">>, <<"P", "D", "F">>, <<"a", "p", "p", "l", "i", "c", "a", "t", "i", "o", "n", "/", "p", "d", "f">>)
ItSite == Item(<<"r", "e", "b", "r", "i", "c", "k", "a", "b", "l", "e", ".", "c", "o", "m", "/", "i", "n", "s", "t", "r", "u", "c", "t", "i", "o", "n", "s", "/", "1">>, <<>>, <<>>, <<>>)
ItBad == Item(<<"s", "h", "o", "p">>, NotAString, <<>>, <<>>)

ItemLists ==
    { <<ItPage>>, <<ItPage, ItGuide, ItPdf>>, <<ItTitled, ItPdf>>, <<ItPage, ItKit>>,
      <<ItMime>>, <<ItPage, ItSite>>, <<ItBad>>, <<ItPage, ItBad, ItPdf>>,
      <<ItPdf, ItBad>>, <<ItPage, ItPage>> }

\* every provider answers: the product is identified by the first search
\* and the step request yields one step
Answers ==
    [idq |-> <<"q">>, prim |-> <<TRUE, FALSE, FALSE, FALSE, FALSE>>,
     exa |-> "none", exaTitle |-> <<"A","c","m","e">>,
     title |-> <<"K","i","t">>, iq |-> TRUE,
     pdf |-> <<ItPdf>>, reg |-> <<>>,
     gen |-> [kind |-> "text", content |-> <<LBr, GenObj(1), RBr>>]]

NoHits == <<FALSE, FALSE, FALSE, FALSE, FALSE>>

\* the provider answers the session specifications explore: a project of two
\* generated steps, one of no step, the secondary provider's project, absent
Oracles ==
    { [Answers EXCEPT !.gen = TwoSteps],
      [Answers EXCEPT !.gen = NoSteps],
      [Answers EXCEPT !.prim = NoHits, !.exa = "titled"],
      [Answers EXCEPT !.idq = <<>>] }

----------------------------------------------------------------------------
(* The actions *)

\* a session object nothing refers to any more is garbage
Live(w, o) ==
    \/ \E sid \in DOMAIN w.sessions : w.sessions[sid] = o
    \/ \E j \in 1..Len(w.tasks) : w.tasks[j].obj = o

Collect(w) == [o \in ObjIds |-> IF Live(w, o) THEN w.heap[o] ELSE Free]

\* the block has run to its next network await or to its end
Commit(w) ==
    /\ sessions' = w.sessions
    /\ heap' = Collect(w)
    /\ projectCache' = w.projectCache
    /\ CURRENT_BARCODE' = w.CURRENT_BARCODE
    /\ cachedBarcode' = w.cachedBarcode
    /\ lastFetch' = w.lastFetch
    /\ cachedData' = w.cachedData
    /\ dataLastFetch' = w.dataLastFetch
    /\ transcriptionCleanups' = w.transcriptionCleanups
    /\ tasks' = w.tasks
    /\ UNCHANGED <<now, config>>

\* onSession (lines 897-926)
onSession(sid) ==
    LET o == CHOOSE x \in ObjIds :
                 heap[x] = Free /\ \A y \in ObjIds : heap[y] = Free => x <= y
        w1 == [World EXCEPT !.sessions[sid] = o, !.heap[o] = NewSession]
        \* this.loadS3Data(sessionId)
        w2 == IF dataIsFresh(w1) THEN loadedS3(w1, sid, w1.cachedData)
              ELSE putTask(w1, 0, Task("loadS3", sid, NoObj, <<>>, "data"))
        \* await this.setupVoiceTranscription(...)
        w3 == [w2 EXCEPT !.transcriptionCleanups = @ \cup {sid}]
        \* await this.updateCurrentBarcode()
    IN IF barcodeIsFresh(w3) THEN setCurrentBarcode(w3, w3.cachedBarcode)
       ELSE putTask(w3, 0, Task("connect", sid, NoObj, <<>>, "barcode"))

Connect(sid) ==
    /\ sid \notin transcriptionCleanups
    /\ \E x \in ObjIds : heap[x] = Free
    /\ Commit(onSession(sid))

\* onStop (lines 995-1002)
onStop(sid) ==
    [World EXCEPT !.sessions[sid] = NoObj, !.transcriptionCleanups = @ \ {sid}]

Stop(sid) ==
    /\ sid \in transcriptionCleanups
    /\ Commit(onStop(sid))

\* a transcription arrives: transcriptionHandler, handleVoiceTranscription
onTranscription(sid, data) ==
    LET o == sessions[sid]
        w1 == handleVoiceTranscription(World, sid, data)
    IN IF o # NoObj /\ View(w1.heap[o]) # View(heap[o])
       THEN markOvertaken(w1, o, 0) ELSE w1

Voice(sid, data) ==
    /\ sid \in transcriptionCleanups
    /\ Commit(onTranscription(sid, data))

\* the barcode request of getCurrentBarcode is answered
barcodeDone(i, resp) ==
    LET t == tasks[i]
        r == barcodeFetched(World, t.t0, resp)
        w1 == setCurrentBarcode(r.w, r.barcode)
    IN IF t.kind = "connect" THEN dropTask(w1, i) ELSE afterBarcode(w1, t, i)

BarcodeDone(i, resp) ==
    /\ i \in 1..Len(tasks)
    /\ tasks[i].pc = "barcode"
    /\ Commit(barcodeDone(i, resp))

\* the network calls of processVoiceCommandWithAI are answered by o
\* a pipeline that caches and uploads whatever Project it returns
pipelineDone_CachesAny(i, o) ==
    LET t == tasks[i]
        r == Pipeline(t.barcode, o)
    IN IF r.result # NoProject
       THEN putTask([World EXCEPT !.projectCache[t.barcode] = r.result],
                    i, [t EXCEPT !.pc = "upload", !.project = r.result])
       ELSE settle(World, t, i, r.result)

pipelineDone(i, o) ==
    LET t == tasks[i]
        r == Pipeline(t.barcode, o)
    IN IF r.write
       THEN putTask([World EXCEPT !.projectCache[t.barcode] = r.result],
                    i, [t EXCEPT !.pc = "upload", !.project = r.result])
       ELSE settle(World, t, i, r.result)

PipelineDone(i, o) ==
    /\ i \in 1..Len(tasks)
    /\ tasks[i].pc = "pipeline"
    /\ Commit(pipelineDone(i, o))

\* the answers of the object store to the PUT: status 200, another status,
\* a failed request
UploadResponses == {"200", "other", "error"}

\* uploadProjectToS3 without its try/catch
uploadProjectToS3_NoCatch(resp) == IF resp = "error" THEN "throw" ELSE "void"

\* uploadProjectToS3 (lines 617-653): the promise resolves whatever the
\* answer, a failed request is caught and logged
uploadProjectToS3(resp) == "void"

\* processVoiceCommandWithAI resumes after await uploadProjectToS3 and
\* returns the project; an exception would reach the catch of line 859
uploaded(i, resp) ==
    IF uploadProjectToS3(resp) = "throw"
    THEN settle(World, tasks[i], i, NoProject)
    ELSE settle(World, tasks[i], i, tasks[i].project)

\* uploadProjectToS3 has settled (it catches its own errors)
uploadDone(i) == uploaded(i, "200")

UploadDone(i) ==
    /\ i \in 1..Len(tasks)
    /\ tasks[i].pc = "upload"
    /\ \E resp \in UploadResponses : Commit(uploaded(i, resp))

\* the request of fetchProductData is answered
dataDone(i, resp) ==
    LET t == tasks[i]
        w1 == dropTask(dataFetched(World, resp), i)
    IN IF t.kind = "loadS3" THEN loadedS3(w1, t.sid, resp) ELSE w1

DataDone(i, resp) ==
    /\ i \in 1..Len(tasks)
    /\ tasks[i].pc = "data"
    /\ Commit(dataDone(i, resp))

\* onToolCall (lines 956-993)
onToolCall(key, toolId) ==
    IF toolId = "identify_device"
    THEN IF sessionsGet(World, key) = NoObj \/ dataIsFresh(World) THEN World
         ELSE putTask(World, 0, Task("identify", "", NoObj, <<>>, "data"))
    ELSE toolStep(World, key, toolId)

ToolCall(key, toolId) == Commit(onToolCall(key, toolId))

WaitForNewBarcode(previousBarcode) ==
    /\ \A j \in 1..Len(tasks) : tasks[j].kind # "wait"
    /\ Commit(waitForNewBarcode(previousBarcode))

WaitFetched(i, resp) ==
    /\ i \in 1..Len(tasks)
    /\ tasks[i].pc = "waitFetch"
    /\ Commit(waitFetched(i, resp))

WaitDelayed(i) ==
    /\ i \in 1..Len(tasks)
    /\ tasks[i].pc = "waitDelay"
    /\ Commit(waitDelayed(i))

ClearCache == Commit(clearCache)

\* time passes
Tick ==
    /\ now < MaxTicks * TickMs
    /\ now' = now + TickMs
    /\ UNCHANGED <<sessions, heap, projectCache, CURRENT_BARCODE, cachedBarcode,
                   lastFetch, cachedData, dataLastFetch, transcriptionCleanups,
                   tasks, config>>

InitOf(S, B, C) ==
    /\ sessions = [sid \in S |-> NoObj]
    /\ heap = [o \in 1..Cardinality(S) |-> Free]
    /\ projectCache = [b \in B |-> NoProject]
    /\ CURRENT_BARCODE = Null
    /\ cachedBarcode = Null
    /\ lastFetch = 0
    /\ cachedData = NoData
    /\ dataLastFetch = 0
    /\ transcriptionCleanups = {}
    /\ tasks = <<>>
    /\ now = 0
    /\ config \in C

\* the suspended functions stay within the bound: at most K, of which at most
\* V are voice commands
Within(K, V) ==
    /\ Len(tasks') <= K
    /\ Cardinality({j \in 1..Len(tasks') : tasks'[j].kind = "voice"}) <= V

\* the next-state relation over the session ids S, the transcriptions T, the
\* provider answers O and the tool ids L
NextOf(S, T, O, L, K, V) ==
    \/ \E sid \in S : Connect(sid) /\ Within(K, V)
    \/ \E sid \in S : Stop(sid)
    \/ \E sid \in S, data \in T : Voice(sid, data) /\ Within(K, V)
    \/ \E i \in 1..K, resp \in BarcodeResponses : BarcodeDone(i, resp)
    \/ \E i \in 1..K, o \in O : PipelineDone(i, o)
    \/ \E i \in 1..K : UploadDone(i)
    \/ \E i \in 1..K, resp \in DataResponses : DataDone(i, resp)
    \/ \E key \in S \cup {"u1"}, toolId \in L : ToolCall(key, toolId) /\ Within(K, V)
    \/ Tick

\* one user, who may reconnect, and one barcode; the user speaks again only
\* when the handler of the last command has finished
Init == InitOf({"s1"}, {"b1"}, Configs)
Next == NextOf({"s1"}, Transcriptions, Oracles, ToolIds, MaxTasks, 1)
Spec == Init /\ [][Next]_vars

\* the same user speaking while earlier commands are still being handled
RaceTranscriptions ==
    {[isFinal |-> TRUE, text |-> x] :
        x \in {<<" ","N","e","x","t">>, <<"h","i">>}}
NextRace == NextOf({"s1"}, RaceTranscriptions, Oracles, ToolIds, MaxTasks, MaxTasks)
SpecRace == Init /\ [][NextRace]_vars

\* two users and two barcodes, within the 30 s of a cached barcode: both
\* stay connected and each says one thing
PairTranscriptions == {[isFinal |-> TRUE, text |-> <<"h","i">>]}
PairOracles ==
    { [Answers EXCEPT !.gen = TwoSteps],
      [Answers EXCEPT !.gen = NoSteps] }
InitPair == InitOf({"s1", "s2"}, {"b1", "b2"}, Configs)
NextPair ==
    \/ \E sid \in {"s1", "s2"} : Connect(sid) /\ Within(MaxTasks, MaxTasks)
    \/ \E sid \in {"s1", "s2"}, data \in PairTranscriptions :
            Voice(sid, data) /\ Within(MaxTasks, MaxTasks)
    \/ \E i \in 1..MaxTasks, resp \in BarcodeResponses : BarcodeDone(i, resp)
    \/ \E i \in 1..MaxTasks, o \in PairOracles : PipelineDone(i, o)
    \/ \E i \in 1..MaxTasks : UploadDone(i)
    \/ \E i \in 1..MaxTasks, resp \in DataResponses : DataDone(i, resp)
SpecPair == InitPair /\ [][NextPair]_vars

\* one user while the endpoint may answer either of two barcodes: what the
\* catalog holds and what CURRENT_BARCODE names can differ
ScanTexts ==
    {[isFinal |-> TRUE, text |-> x] : x \in {<<" ","N","e","x","t">>, <<"n","e","w">>}}
InitScan == InitOf({"s1"}, {"b1", "b2"}, Configs)
NextScan == NextOf({"s1"}, ScanTexts, Oracles, ToolIds, MaxTasks, 1)
SpecScan == InitScan /\ [][NextScan]_vars

\* two users with every kind of event: connecting, disconnecting, speaking,
\* tool calls, and the answers of the endpoints and providers
TwoTexts == {[isFinal |-> TRUE, text |-> <<" ","N","e","x","t">>]}
InitTwo == InitOf({"s1", "s2"}, {"b1"}, Configs)
NextTwo ==
    NextOf({"s1", "s2"}, TwoTexts, {[Answers EXCEPT !.gen = TwoSteps]},
           {"next_step", "previous_step"}, MaxTasks, 1)
SpecTwo == InitTwo /\ [][NextTwo]_vars

\* the same with commands that arrive while a resolution is pending
NextScanRace ==
    \/ \E sid \in {"s1"} : Connect(sid) /\ Within(MaxTasks, MaxTasks)
    \/ \E sid \in {"s1"}, data \in PairTranscriptions :
            Voice(sid, data) /\ Within(MaxTasks, MaxTasks)
    \/ \E i \in 1..MaxTasks, resp \in BarcodeResponses : BarcodeDone(i, resp)
    \/ \E i \in 1..MaxTasks, o \in PairOracles : PipelineDone(i, o)
    \/ \E i \in 1..MaxTasks : UploadDone(i)
    \/ \E i \in 1..MaxTasks, resp \in DataResponses : DataDone(i, resp)
SpecScanRace == InitScan /\ [][NextScanRace]_vars

\* The resolution pipeline under every configuration of the provider keys
\* and a range of provider answers: one user, one barcode, one command at a
\* time.
PipelineTitles ==
    { <<"K","i","t">>, <<"D","e","s","k">>, <<"s","h","e","l","f">>,
      <<"c","h","a","i","r">>, <<"t","a","b","l","e">>,
      <<"L","E","G","O"," ","t","a","b","l","e">> }

\* answers of the generation provider: a failed request, and the texts
\*   [s1]   [s1,s2]   [s7]   []   x[s1]x   x   [x]   [s1   [null]   []x[s1]
GenResponses ==
    { [kind |-> "error", content |-> <<>>] }
    \cup {[kind |-> "text", content |-> c] : c \in
            { <<LBr, GenObj(1), RBr>>,
              <<LBr, GenObj(1), Comma, GenObj(2), RBr>>,
              <<LBr, GenObj(7), RBr>>,
              <<LBr, RBr>>,
              <<Prose, LBr, GenObj(1), RBr, Prose>>,
              <<Prose>>,
              <<LBr, Prose, RBr>>,
              <<LBr, GenObj(1)>>,
              <<LBr, JNull, RBr>>,
              <<LBr, RBr, Prose, LBr, GenObj(1), RBr>> }}

PipelineOracles ==
    {[Answers EXCEPT !.title = t, !.gen = g] : t \in PipelineTitles, g \in GenResponses}
    \cup {[Answers EXCEPT !.prim = h, !.exa = e, !.exaTitle = n, !.idq = q] :
            h \in {NoHits, <<FALSE, TRUE, FALSE, TRUE, FALSE>>,
                   <<FALSE, FALSE, FALSE, FALSE, TRUE>>, <<TRUE, TRUE, FALSE, FALSE, FALSE>>},
            e \in {"none", "titled", "untitled"},
            n \in {<<"A","c","m","e">>},
            q \in {<<"q">>, <<>>}}
    \cup {[Answers EXCEPT !.title = <<>>], [Answers EXCEPT !.iq = FALSE],
          [Answers EXCEPT !.pdf = <<>>],
          [Answers EXCEPT !.pdf = <<>>, !.reg = <<ItPage>>]}
    \cup {[Answers EXCEPT !.pdf = items] : items \in ItemLists}
    \cup {[Answers EXCEPT !.pdf = <<>>, !.reg = items] : items \in ItemLists}

InitPipeline == InitOf({"s1"}, {"b1"}, SUBSET AllKeys)
NextPipeline ==
    \/ \E sid \in {"s1"} : Connect(sid) /\ Within(MaxTasks, 1)
    \/ \E sid \in {"s1"}, data \in PairTranscriptions :
            Voice(sid, data) /\ Within(MaxTasks, 1)
    \/ \E i \in 1..MaxTasks, resp \in BarcodeResponses : BarcodeDone(i, resp)
    \/ \E i \in 1..MaxTasks, o \in PipelineOracles : PipelineDone(i, o)
    \/ \E i \in 1..MaxTasks : UploadDone(i)
    \/ \E i \in 1..MaxTasks, resp \in DataResponses : DataDone(i, resp)
SpecPipeline == InitPipeline /\ [][NextPipeline]_vars

\* BarcodeService under its callers: sessions that connect (onSession calls
\* updateCurrentBarcode), one waitForNewBarcode at a time with any previous
\* barcode, clearCache, and the 30 s of the cache passing
Previous == {Null, "b1", "b2"}
NextBarcode ==
    \/ \E sid \in {"s1"} : Connect(sid) /\ Within(MaxTasks, 1)
    \/ \E sid \in {"s1"} : Stop(sid)
    \/ \E i \in 1..MaxTasks, resp \in BarcodeResponses : BarcodeDone(i, resp)
    \/ \E i \in 1..MaxTasks, resp \in DataResponses : DataDone(i, resp)
    \/ \E previousBarcode \in Previous :
            WaitForNewBarcode(previousBarcode) /\ Within(MaxTasks, 1)
    \/ \E i \in 1..MaxTasks, resp \in BarcodeResponses : WaitFetched(i, resp)
    \/ \E i \in 1..MaxTasks : WaitDelayed(i)
    \/ ClearCache
    \/ Tick
SpecBarcode == InitScan /\ [][NextBarcode]_vars

\* The same steps with the progress the code guarantees.  The requests of
\* getCurrentBarcode and fetchProductData carry `timeout: 10000`: each ends
\* with an answer or with the timeout's error, so a suspended BarcodeDone or
\* DataDone step is eventually taken.  The requests of the resolution
\* pipeline and of uploadProjectToS3 carry no timeout (axios waits without
\* limit): whether PipelineDone or UploadDone is ever taken is up to the
\* provider.
SpecLive ==
    /\ Init
    /\ [][NextPipeline]_vars
    /\ WF_vars(\E i \in 1..MaxTasks, resp \in BarcodeResponses : BarcodeDone(i, resp))
    /\ WF_vars(\E i \in 1..MaxTasks, resp \in DataResponses : DataDone(i, resp))

----------------------------------------------------------------------------
(* The blocks that can run next in the current state, each with the world   *)
(* it leaves: op names the block, sid and obj the session id and the        *)
(* session object it is about, cmd the normalised command; for a resumed    *)
(* function, barcode is the barcode of its resolve call and late its        *)
(* overtaken flag.                                                          *)

Block(op, sid, obj, cmd, final, w) ==
    [op |-> op, sid |-> sid, obj |-> obj, cmd |-> cmd, final |-> final, w |-> w,
     barcode |-> Null, late |-> FALSE]

At(pc) == {j \in 1..Len(tasks) : tasks[j].pc = pc}

TaskBlock(op, i, w) ==
    [Block(op, tasks[i].sid, tasks[i].obj, tasks[i].cmd, TRUE, w)
        EXCEPT !.barcode = tasks[i].barcode, !.late = tasks[i].overtaken]

VoiceBlocks ==
    {Block("voice", sid, sessions[sid], trim(toLowerCase(data.text)),
           data.isFinal, onTranscription(sid, data)) :
        sid \in transcriptionCleanups, data \in Transcriptions}

SettleBlocks ==
    {TaskBlock("pipelineDone", i, pipelineDone(i, o)) :
        i \in At("pipeline"), o \in Oracles}
    \cup {TaskBlock("uploadDone", i, uploadDone(i)) : i \in At("upload")}

Blocks ==
    VoiceBlocks \cup SettleBlocks
    \cup {Block("connect", sid, NoObj, <<>>, TRUE, onSession(sid)) :
            sid \in {x \in DOMAIN sessions :
                        /\ x \notin transcriptionCleanups
                        /\ \E y \in ObjIds : heap[y] = Free}}
    \cup {Block("stop", sid, sessions[sid], <<>>, TRUE, onStop(sid)) :
            sid \in transcriptionCleanups}
    \cup {TaskBlock("barcodeDone", i, barcodeDone(i, resp)) :
            i \in At("barcode"), resp \in BarcodeResponses}
    \cup {TaskBlock("dataDone", i, dataDone(i, resp)) :
            i \in At("data"), resp \in DataResponses}
    \cup {Block(toolId, key, sessionsGet(World, key), <<>>, TRUE,
                onToolCall(key, toolId)) :
            key \in DOMAIN sessions \cup {"u1"}, toolId \in ToolIds}

\* the session objects that exist
Objs == {o \in ObjIds : heap[o] # Free}

----------------------------------------------------------------------------
(* Step index and navigation *)

InRange(project, idx) == 0 <= idx /\ idx < project.totalSteps

\* C1: a session with an active project has 0 <= currentStep < totalSteps,
\* and no block calls showInstructionStep with an index outside that range
C1_StepInRange ==
    /\ \A o \in Objs :
          heap[o].currentProject # NoProject
              => InRange(heap[o].currentProject, heap[o].currentStep)
    /\ \A b \in Blocks : \A k \in 1..Len(b.w.shown) :
          0 <= b.w.shown[k].idx /\ b.w.shown[k].idx < b.w.shown[k].total

\* a final voice command with a next keyword, for a session that is building
NextInBuilding(b) ==
    /\ b.op = "voice" /\ b.final /\ b.obj # NoObj
    /\ isNextCommand(b.cmd)
    /\ heap[b.obj].state = "building"

\* C2: in phase building a next/continue/forward command at index
\* totalSteps - 1 moves to completed and keeps the index; at a smaller index
\* it adds exactly 1 to the index and stays in building
C2_NextCommand ==
    \A b \in VoiceBlocks : NextInBuilding(b) =>
        LET st == heap[b.obj]
            st2 == b.w.heap[b.obj]
        IN /\ st.currentStep = st.currentProject.totalSteps - 1
                => st2.state = "completed" /\ st2.currentStep = st.currentStep
           /\ st.currentStep < st.currentProject.totalSteps - 1
                => st2.state = "building" /\ st2.currentStep = st.currentStep + 1

\* a next command has moved a session to its last index, where the next one
\* completes it
C2_Witness ==
    \E b \in VoiceBlocks :
        /\ NextInBuilding(b)
        /\ heap[b.obj].currentStep = heap[b.obj].currentProject.totalSteps - 1
        /\ heap[b.obj].currentStep > 0
        /\ b.w.heap[b.obj].state = "completed"

\* a final voice command with a back keyword and no next keyword, for a
\* session that is building
BackInBuilding(b) ==
    /\ b.op = "voice" /\ b.final /\ b.obj # NoObj
    /\ isBackCommand(b.cmd) /\ ~isNextCommand(b.cmd)
    /\ heap[b.obj].state = "building"

\* C3: in phase building a back/previous/last command without a next keyword
\* leaves index 0 and the phase as they are; at an index above 0 it takes
\* exactly 1 from the index
C3_BackCommand ==
    \A b \in VoiceBlocks : BackInBuilding(b) =>
        LET st == heap[b.obj]
            st2 == b.w.heap[b.obj]
        IN /\ st.currentStep = 0
                => st2.state = "building" /\ st2.currentStep = 0
           /\ st.currentStep > 0 => st2.currentStep = st.currentStep - 1

\* a back command is about to take a session from index 1 to index 0
C3_Witness ==
    \E b \in VoiceBlocks :
        /\ BackInBuilding(b)
        /\ heap[b.obj].currentStep > 0
        /\ b.w.heap[b.obj].currentStep = 0
        /\ b.w.shown # <<>>

----------------------------------------------------------------------------
(* Resolutions and the session *)

\* the voice commands of session object o whose resolve call is in flight
InFlight(o) ==
    {j \in 1..Len(tasks) :
        /\ tasks[j].kind = "voice" /\ tasks[j].obj = o
        /\ tasks[j].pc \in {"pipeline", "upload"}}

\* C4: at most one resolution per session is in flight at any time
C4_OneResolution == \A o \in Objs : Cardinality(InFlight(o)) <= 1

\* the block ends the handler of a command whose resolve call gave a Project
Resolved(b) == b.w.settled # Unsettled /\ b.w.settled # NoProject

\* C5: when the handler of a command whose resolution succeeded has
\* finished, its session is in phase building at step index 0 with the
\* resolved project active, whatever the text of the command
C5_AutoStart ==
    \A b \in Blocks : Resolved(b) /\ sessions[b.sid] = b.obj =>
        LET st2 == b.w.heap[b.obj]
        IN /\ st2.state = "building"
           /\ st2.currentStep = 0
           /\ st2.currentProject = b.w.settled

\* C6: a resolution that settles after its session has disconnected is
\* discarded: the sessions map still has no entry for the session id, and no
\* project is selected or rendered
C6_DiscardAfterStop ==
    \A b \in SettleBlocks : sessions[b.sid] = NoObj =>
        /\ b.w.sessions[b.sid] = NoObj
        /\ b.w.shown = <<>>
        /\ b.w.heap[b.obj].currentProject = heap[b.obj].currentProject

\* C7: the state change of a command (phase, step index, active project) is
\* never applied after the state change of a command of the same session
\* that arrived later
C7_ArrivalOrder ==
    \A b \in Blocks : b.late => View(b.w.heap[b.obj]) = View(heap[b.obj])

\* the barcode of the resolve call a block has ended
BarcodeOf(b) == IF b.w.resolve # NoCall THEN b.w.resolve.barcode ELSE b.barcode

\* resolve(B) called in the world a block has left
secondCall(b) ==
    resolveCall([b.w EXCEPT !.CURRENT_BARCODE = BarcodeOf(b),
                            !.resolve = NoCall, !.settled = Unsettled],
                Task("voice", b.sid, b.obj, b.cmd, "barcode"), 0)

\* C8: when resolve(B) has returned a Project, a second call of resolve(B)
\* makes no provider call and returns the same Project
C8_SecondCallCached ==
    \A b \in Blocks : Resolved(b) /\ b.obj # NoObj =>
        /\ secondCall(b).resolve.hit
        /\ secondCall(b).tasks = b.w.tasks
        /\ secondCall(b).settled = b.w.settled

\* C9 as stated: an entry of the resolution cache is never replaced or removed
C9_EntryNeverReplaced ==
    \A b \in Blocks : \A bc \in DOMAIN projectCache :
        projectCache[bc] # NoProject => b.w.projectCache[bc] = projectCache[bc]

\* C9, amended: an entry of the resolution cache is never removed and keeps
\* its id; a resolve call that starts while the entry exists returns the
\* entry, calls no provider and leaves the cache as it is; the entry is
\* replaced only when a resolve call for the same barcode that was already
\* past its cache check ends its normal path
C9_EntryReplacedOnlyByRace ==
    \A b \in Blocks : \A bc \in DOMAIN projectCache :
        projectCache[bc] # NoProject =>
            /\ b.w.projectCache[bc] # NoProject
            /\ b.w.projectCache[bc].id = projectCache[bc].id
            /\ b.w.projectCache[bc] # projectCache[bc]
                   => b.op = "pipelineDone" /\ b.barcode = bc
            /\ b.w.resolve # NoCall /\ b.w.resolve.barcode = bc
                   => /\ b.w.projectCache = projectCache
                      /\ b.w.settled = projectCache[bc]
                      /\ Len(b.w.tasks) < Len(tasks) + 1

\* a resolve call that missed the cache ends its normal path when another
\* call has written the entry, and writes another Project over it
C9_Witness ==
    \E b \in SettleBlocks :
        /\ b.op = "pipelineDone"
        /\ projectCache[b.barcode] # NoProject
        /\ b.w.projectCache[b.barcode] # projectCache[b.barcode]

PhaseChanges ==
    {<<"welcome", "selecting">>, <<"welcome", "building">>,
     <<"selecting", "building">>, <<"building", "completed">>,
     <<"completed", "selecting">>}

\* C10: every change of a session's phase is welcome->selecting,
\* welcome->building, selecting->building, building->completed or
\* completed->selecting
C10_PhaseChanges ==
    \A b \in Blocks : \A k \in 1..Len(b.w.moves) :
        \/ b.w.moves[k][1] = b.w.moves[k][2]
        \/ b.w.moves[k] \in PhaseChanges

----------------------------------------------------------------------------
\* the pipeline projects (source "barcode") in the catalog of session object o
PipelineIds(st) ==
    {id \in DOMAIN st.availableProjects : st.availableProjects[id].source = "barcode"}

\* a final, non-empty command handled for a session in phase selecting
SelectingCommand(b) ==
    /\ b.op = "voice" /\ b.final /\ b.cmd # <<>>
    /\ b.obj # NoObj
    /\ heap[b.obj].state = "selecting"

\* C11: in phase selecting, when the catalog holds both a pipeline project
\* and the S3 project, any command selects the pipeline project.
C11_PrefersPipeline ==
    \A b \in VoiceBlocks :
        (/\ SelectingCommand(b)
         /\ PipelineIds(heap[b.obj]) # {}
         /\ S3Id \in DOMAIN heap[b.obj].availableProjects)
        => /\ b.w.heap[b.obj].state = "building"
           /\ b.w.heap[b.obj].currentProject.source = "barcode"

\* C12: in phase selecting with a catalog of at least one project, any
\* non-empty final command moves the session to building at step index 0
\* with one of the catalog's projects active.
C12_SelectingStarts ==
    \A b \in VoiceBlocks :
        (/\ SelectingCommand(b)
         /\ DOMAIN heap[b.obj].availableProjects # {})
        => /\ b.w.heap[b.obj].state = "building"
           /\ b.w.heap[b.obj].currentStep = 0
           /\ \E id \in DOMAIN heap[b.obj].availableProjects :
                b.w.heap[b.obj].currentProject = heap[b.obj].availableProjects[id]

\* C13: a session's catalog holds at most one pipeline project and at most
\* one S3 project.
C13_CatalogAtMostOneEach ==
    \A o \in Objs :
        /\ Cardinality(PipelineIds(heap[o])) <= 1
        /\ Cardinality({id \in DOMAIN heap[o].availableProjects :
                            heap[o].availableProjects[id].source = "s3"}) <= 1

----------------------------------------------------------------------------
(* Claims about the resolution pipeline.  They are stated for every resolve *)
(* call in flight (a task at pc "pipeline") and every answer of the         *)
(* providers in PipelineOracles, under the configuration of the run.        *)

\* every Project the program holds: the cache entries and the catalogs
Projects ==
    {projectCache[b] : b \in {x \in DOMAIN projectCache : projectCache[x] # NoProject}}
    \cup UNION {{heap[o].availableProjects[id] : id \in DOMAIN heap[o].availableProjects} :
                    o \in Objs}

\* C14: the step synthesizer never returns an empty step list, whatever the
\* text of the generation provider's answer, so every Project of resolve
\* has at least one step.
C14_NeverEmpty ==
    /\ \A i \in At("pipeline"), o \in PipelineOracles :
            /\ generateInstructionsFromPDF(o.title, "", o.gen) # <<>>
            /\ Pipeline(tasks[i].barcode, o).result # NoProject
                => Len(Pipeline(tasks[i].barcode, o).result.steps) >= 1
    /\ \A p \in Projects : Len(p.steps) >= 1

\* C15: in every Project that enters the cache or a catalog, the step at
\* position i (from 0) has id i + 1.
C15_ContiguousIds ==
    \A p \in Projects : \A k \in 1..Len(p.steps) : p.steps[k].id = k

\* the template the keywords of a title select
TemplateOf(title) ==
    LET t == toLowerCase(title)
    IN IF includes(t, kwLego) THEN legoTemplate
       ELSE IF \E k \in {kwShelf, kwTable, kwDesk, kwChair} : includes(t, k)
            THEN furnitureTemplate
       ELSE genericTemplate

\* the resolve calls in flight with the answers they may get
Resolving == {[i |-> i, o |-> o] : i \in At("pipeline"), o \in PipelineOracles}

\* C16: with no generation provider configured, the synthesizer returns
\* exactly the 5-step kit-build template when the title contains "lego" in
\* any case (also when it contains a furniture keyword), else exactly the
\* 5-step furniture template when it contains shelf, table, desk or chair,
\* else exactly the 5-step generic template.
C16_TemplateByKeyword ==
    "anthropic" \notin config =>
        \A r \in Resolving :
            LET steps == generateInstructionsFromPDF(r.o.title, "", r.o.gen)
                p == Pipeline(tasks[r.i].barcode, r.o)
            IN /\ Len(steps) = 5
               /\ steps = TemplateOf(r.o.title)
               /\ p.write => p.result.steps = TemplateOf(p.result.name)

C16_Witness ==
    /\ "anthropic" \notin config
    /\ \E b \in DOMAIN projectCache :
        /\ projectCache[b] # NoProject
        /\ projectCache[b].name = <<"L","E","G","O"," ","t","a","b","l","e">>
        /\ projectCache[b].steps = legoTemplate

\* the generation provider's request failed, or its text holds no bracketed
\* array, or the bracketed text does not parse
GenerationFails(resp) ==
    \/ resp.kind = "error"
    \/ jsonMatch(resp.content) = <<>>
    \/ ~parses(jsonMatch(resp.content))

\* C17: when the generation provider is configured but its request fails,
\* its response holds no bracketed array, or the bracketed text fails to
\* parse, the synthesizer returns the template its title's keywords select
\* (and so returns normally).
C17_FallbackOnFailure ==
    "anthropic" \in config =>
        \A r \in Resolving :
            GenerationFails(r.o.gen) =>
                LET steps == generateInstructionsFromPDF(r.o.title, "", r.o.gen)
                IN /\ steps \in {legoTemplate, furnitureTemplate, genericTemplate}
                   /\ steps = TemplateOf(r.o.title)
                   /\ Pipeline(tasks[r.i].barcode, r.o).write
                        => Pipeline(tasks[r.i].barcode, r.o).result.steps = steps

C17_Witness ==
    /\ "anthropic" \in config
    /\ \E r \in Resolving :
        /\ r.o.gen.kind = "text"
        /\ r.o.gen.content = <<LBr, Prose, RBr>>
        /\ Pipeline(tasks[r.i].barcode, r.o).write
        /\ pipelineDone(r.i, r.o).projectCache[tasks[r.i].barcode].steps = furnitureTemplate

\* resolve as a function: every barcode with every answer of the providers
Resolves == {[b |-> b, o |-> o] : b \in DOMAIN projectCache, o \in PipelineOracles}

\* the same for the resolve calls in flight
PendingResolves == {[b |-> tasks[r.i].barcode, o |-> r.o] : r \in Resolving}

\* whether the k-th primary search of the identification stage (1 the
\* generated query, 2..5 the fallback queries) returns items
PrimaryItems(o, k) == "serpapi" \in config /\ o.prim[k]

\* the k-th call of the trace c is a primary search of the identification
\* stage: only identifyProductFromBarcode and primary searches precede it
IsPrimary(c, k) ==
    /\ k \in 2..Len(c) /\ k <= 6
    /\ \A j \in 2..k : c[j].fn = "searchWithGoogle"

\* C18: in the identification stage the secondary provider is called only
\* after the primary provider returned nothing for the generated query and
\* for each of the four fallback queries, tried in their fixed order; the
\* loop stops at the first non-empty primary result and the secondary
\* provider is then not called.
C18_SecondaryLast ==
    \A r \in PendingResolves :
        LET c == Pipeline(r.b, r.o).calls IN
        /\ \A k \in 1..Len(c) :
            c[k].fn = "searchWithExa" =>
                /\ k = 7
                /\ c[2] = Call("searchWithGoogle", r.o.idq)
                /\ \A j \in 1..4 : c[2 + j] = Call("searchWithGoogle", fallbackQueries(r.b)[j])
                /\ \A j \in 1..5 : ~PrimaryItems(r.o, j)
        /\ \A k \in 2..Len(c) :
            (IsPrimary(c, k) /\ PrimaryItems(r.o, k - 1)) =>
                /\ k < Len(c) => c[k + 1].fn = "analyzeProductFromGoogleResults"
                /\ \A j \in 1..Len(c) : c[j].fn # "searchWithExa"

C18_Witness ==
    \E r \in Resolving :
        LET p == Pipeline(tasks[r.i].barcode, r.o) IN
        /\ Len(p.calls) = 7
        /\ p.calls[7].fn = "searchWithExa"
        /\ pipelineDone(r.i, r.o).settled = p.result
        /\ p.result # NoProject

\* every primary search is empty and the secondary provider returns a result
SecondaryOnly(r) ==
    /\ "cerebras" \in config /\ r.o.idq # <<>>
    /\ \A j \in 1..5 : ~PrimaryItems(r.o, j)
    /\ "exa" \in config /\ r.o.exa # "none"

\* the title of the secondary provider's top result ("" when it has none)
topTitle(o) == IF o.exa = "titled" THEN o.exaTitle ELSE <<>>

GenerationCalls ==
    {"analyzeProductFromGoogleResults", "generateInstructionQuery",
     "generateInstructionsFromPDF"}

\* what C19 says of the Project apart from its name
SecondaryShape(r) ==
    LET p == Pipeline(r.b, r.o) IN
    /\ p.result # NoProject
    /\ Len(p.result.steps) = 3
    /\ p.result.totalSteps = 3
    /\ p.result.source = "barcode"
    /\ \A k \in 1..Len(p.calls) : p.calls[k].fn \notin GenerationCalls

\* C19: when every primary search is empty and the secondary provider
\* returns at least one result, resolve returns a Project of exactly 3 steps,
\* totalSteps 3, source barcode, named by the top result's title, and makes
\* no title-identification, instruction-query or step-synthesis call.
C19_NamedByTitle ==
    \A r \in PendingResolves :
        SecondaryOnly(r) =>
            /\ SecondaryShape(r)
            /\ Pipeline(r.b, r.o).result.name = topTitle(r.o)

\* C19 as the code has it: the name is the top result's title, or the
\* product-identification query when that result has no title.
C19_NamedByTitleOrQuery ==
    \A r \in PendingResolves :
        SecondaryOnly(r) =>
            /\ SecondaryShape(r)
            /\ Pipeline(r.b, r.o).result.name =
                    IF topTitle(r.o) # <<>> THEN topTitle(r.o) ELSE r.o.idq

C19_Witness ==
    \E r \in Resolving :
        /\ SecondaryOnly([b |-> tasks[r.i].barcode, o |-> r.o])
        /\ r.o.exa = "untitled"
        /\ pipelineDone(r.i, r.o).settled # NoProject
        /\ pipelineDone(r.i, r.o).settled.name = r.o.idq
        /\ pipelineDone(r.i, r.o).heap[tasks[r.i].obj].currentProject.totalSteps = 3

SearchCalls == {"searchWithGoogle", "searchGoogleForPDFs", "searchWithExa"}

\* C20: when the product-identification query is absent (provider not
\* configured, error or empty text) resolve returns absent and makes no
\* search call; when the query is composed but the primary provider, every
\* fallback query and the secondary provider return nothing, resolve returns
\* absent; the cache is unchanged in both cases.
C20_AbsentOnFailure ==
    /\ \A r \in Resolves :
        LET p == Pipeline(r.b, r.o) IN
        /\ ("cerebras" \notin config \/ r.o.idq = <<>>) =>
                /\ p.result = NoProject /\ ~p.write
                /\ \A k \in 1..Len(p.calls) : p.calls[k].fn \notin SearchCalls
        /\ (/\ "cerebras" \in config /\ r.o.idq # <<>>
            /\ \A j \in 1..5 : ~PrimaryItems(r.o, j)
            /\ ("exa" \notin config \/ r.o.exa = "none")) =>
                p.result = NoProject /\ ~p.write
    /\ \A r \in Resolving :
        Pipeline(tasks[r.i].barcode, r.o).result = NoProject =>
            /\ pipelineDone(r.i, r.o).projectCache = projectCache
            /\ pipelineDone(r.i, r.o).settled = NoProject
    /\ \A b \in Blocks :
        (b.w.resolve # NoCall /\ ~b.w.resolve.hit /\ "cerebras" \notin config) =>
            /\ b.w.settled = NoProject
            /\ b.w.projectCache = projectCache
            /\ \A j \in 1..Len(b.w.tasks) : b.w.tasks[j].pc # "pipeline"

C20_Witness ==
    /\ \E r \in Resolving :
        /\ r.o.idq = <<>>
        /\ pipelineDone(r.i, r.o).settled = NoProject
        /\ pipelineDone(r.i, r.o).projectCache = projectCache
    /\ \E r \in Resolving :
        /\ r.o.idq # <<>> /\ r.o.prim = NoHits /\ r.o.exa = "none"
        /\ Len(Pipeline(tasks[r.i].barcode, r.o).calls) = 7
        /\ pipelineDone(r.i, r.o).settled = NoProject
        /\ pipelineDone(r.i, r.o).projectCache = projectCache

\* the resolve call r obtains a product title: title identification is
\* reached and answers, so instruction-query composition is called
TitleObtained(r) ==
    \E k \in 1..Len(Pipeline(r.b, r.o).calls) :
        Pipeline(r.b, r.o).calls[k] = Call("generateInstructionQuery", r.o.title)

\* C21: once resolve has obtained a product title, the call returns a
\* Project and never absent, whatever the later provider calls return.
C21_ProjectAfterTitle ==
    \A r \in PendingResolves :
        TitleObtained(r) => Pipeline(r.b, r.o).result # NoProject

\* C22: resolve never raises to its caller: under every configuration of
\* the providers and every answer, failure or malformed response, the call
\* settles with a Project or with absent.
C22_NeverRaises ==
    /\ \A r \in Resolves :
        /\ ~Pipeline(r.b, r.o).raised
        /\ \/ Pipeline(r.b, r.o).result = NoProject
           \/ Pipeline(r.b, r.o).result.id = BarcodeId(r.b)
    /\ \A r \in Resolving :
        /\ ~pipelineDone(r.i, r.o).threw
        /\ ~Pipeline(tasks[r.i].barcode, r.o).write
            => pipelineDone(r.i, r.o).settled = Pipeline(tasks[r.i].barcode, r.o).result

C22_Witness ==
    \E r \in Resolving :
        /\ PipelineTry(tasks[r.i].barcode, r.o).raised
        /\ pipelineDone(r.i, r.o).settled = NoProject
        /\ ~pipelineDone(r.i, r.o).threw

\* C23: on the normal path the Project is written to the cache before the
\* upload to the object store is attempted, and a failed upload changes
\* neither the Project the call returns nor the cache entry.
C23_CacheBeforeUpload ==
    /\ \A r \in Resolving :
        LET p == Pipeline(tasks[r.i].barcode, r.o)
            w == pipelineDone(r.i, r.o)
        IN p.write =>
            /\ w.projectCache[tasks[r.i].barcode] = p.result
            /\ \E j \in 1..Len(w.tasks) :
                w.tasks[j].pc = "upload" /\ w.tasks[j].project = p.result
    /\ \A i \in At("upload"), resp \in UploadResponses :
        /\ uploaded(i, resp).settled = tasks[i].project
        /\ uploaded(i, resp).projectCache = projectCache
        /\ projectCache[tasks[i].barcode] # NoProject

C23_Witness ==
    \E i \in At("upload") :
        /\ projectCache[tasks[i].barcode] = tasks[i].project
        /\ uploaded(i, "error").settled = tasks[i].project
        /\ uploaded(i, "error").heap[tasks[i].obj].currentProject = tasks[i].project

\* a resolve call is in flight: suspended in a provider request or in the
\* upload
ResolvePending == At("pipeline") \cup At("upload") # {}

\* C24: every resolve call eventually settles, with a Project or absent,
\* even if a provider never answers a request.
C24_ResolveSettles == ResolvePending ~> ~ResolvePending

\* requests of getCurrentBarcode in flight, made for a session
\* (updateCurrentBarcode) or by waitForNewBarcode
FetchPending == At("barcode") \cup At("waitFetch")

CacheYoung == cachedBarcode # Null /\ (now - lastFetch) < cacheTimeout

\* C25: getCurrentBarcode with a barcode cached for less than 30 s returns
\* the cached barcode and makes no request; a request that yields a barcode
\* replaces the cache and its timestamp and returns the new barcode.
C25_FreshOrFetched ==
    /\ CacheYoung =>
        \A previousBarcode \in Previous :
            LET w == waitForNewBarcode(previousBarcode)
            IN /\ \A j \in 1..Len(w.tasks) :
                    w.tasks[j].pc = "waitFetch" => j \in At("waitFetch")
               /\ w.cachedBarcode = cachedBarcode /\ w.lastFetch = lastFetch
               /\ cachedBarcode # previousBarcode => w.returned = cachedBarcode
    /\ \A i \in FetchPending, b \in DOMAIN projectCache :
        LET r == barcodeFetched(World, tasks[i].t0, [kind |-> "ok", barcode |-> b])
        IN /\ r.barcode = b
           /\ r.w.cachedBarcode = b
           /\ r.w.lastFetch = tasks[i].t0

C25_Witness ==
    /\ CacheYoung /\ cachedBarcode = "b1"
    /\ waitForNewBarcode("b2").returned = "b1"
    /\ \E i \in FetchPending :
        barcodeFetched(World, tasks[i].t0, [kind |-> "ok", barcode |-> "b2"]).w.cachedBarcode = "b2"

\* C26: once a barcode is cached, a request that yields no barcode makes
\* getCurrentBarcode return the cached barcode, however old.
C26_StaleOnFailure ==
    \A i \in FetchPending, resp \in BarcodeResponses :
        (resp.kind # "ok" /\ cachedBarcode # Null) =>
            barcodeFetched(World, tasks[i].t0, resp).barcode = cachedBarcode

WaitTasks == {i \in 1..Len(tasks) : tasks[i].kind = "wait"}

\* what waitForNewBarcode must have done in block w once its attempt of
\* task t observed currentBarcode
WaitOutcome(w, t, currentBarcode) ==
    IF currentBarcode # Null /\ currentBarcode # t.previous
    THEN w.returned = currentBarcode
    ELSE IF t.attempt = maxAttempts
         THEN /\ w.returned = Null
              /\ \A j \in 1..Len(w.tasks) : w.tasks[j].kind # "wait"
    ELSE /\ w.returned = NoReturn
         /\ \E j \in 1..Len(w.tasks) :
                /\ w.tasks[j].kind = "wait"
                /\ w.tasks[j].pc = "waitDelay"
                /\ w.tasks[j].attempt = t.attempt

\* C27: waitForNewBarcode calls getCurrentBarcode at most 10 times; it
\* returns at the first barcode that is present and differs from previous,
\* and returns absent when the tenth attempt too observes none.
C27_BoundedWait ==
    /\ \A i \in WaitTasks : tasks[i].attempt \in 1..maxAttempts
    /\ \A i \in At("waitFetch"), resp \in BarcodeResponses :
        WaitOutcome(waitFetched(i, resp), tasks[i],
                    barcodeFetched(World, tasks[i].t0, resp).barcode)
    /\ \A i \in At("waitDelay") :
        LET w == waitDelayed(i)
        IN /\ tasks[i].attempt < maxAttempts
           /\ w.returned \notin {NoReturn, Null} =>
                w.returned # tasks[i].previous /\ w.returned = cachedBarcode
           /\ w.returned = Null => tasks[i].attempt + 1 = maxAttempts

C27_Witness ==
    \E i \in At("waitFetch") :
        /\ tasks[i].attempt = maxAttempts
        /\ tasks[i].previous = "b1"
        /\ waitFetched(i, [kind |-> "ok", barcode |-> "b1"]).returned = Null
        /\ waitFetched(i, [kind |-> "ok", barcode |-> "b2"]).returned = "b2"

\* the item lists findFirstValidPDF is applied to in a resolve call in
\* flight: the results of the PDF search and of the regular search
Searched == {r.o.pdf : r \in Resolving} \cup {r.o.reg : r \in Resolving}

\* every item of the list carries the string title of a search result
WellTyped(items) == \A k \in 1..Len(items) : items[k].title # NotAString

Likely(items) == {k \in 1..Len(items) : isPDF(items[k]) = "true"}

\* C28: findFirstValidPDF returns the candidate of the lowest-index result
\* that satisfies isPDF, whatever follows it, and returns absent exactly
\* when the list is empty or no result satisfies isPDF.
C28_FirstMatch ==
    \A items \in Searched :
        WellTyped(items) =>
            /\ findFirstValidPDF(items) = NoPDF <=> Likely(items) = {}
            /\ \A k \in Likely(items) :
                (\A j \in Likely(items) : k <= j) =>
                    findFirstValidPDF(items) = Candidate(items[k])

C28_Witness ==
    \E r \in Resolving :
        /\ r.o.pdf = <<ItPage, ItGuide, ItPdf>>
        /\ Likely(r.o.pdf) = {2, 3}
        /\ findFirstValidPDF(r.o.pdf) = Candidate(ItGuide)
        /\ findFirstValidPDF(r.o.reg) = NoPDF

\* the transcripts of the navigation commands of lines 1119-1130, alone,
\* combined with each other and with the keywords tested before them
NavTexts == {
    <<"R","e","p","e","a","t">>,
    <<"a","g","a","i","n">>,
    <<"w","h","a","t">>,
    <<"s","a","y"," ","t","h","a","t"," ","a","g","a","i","n">>,
    <<"w","h","a","t"," ","n","e","x","t">>,
    <<"w","h","a","t"," ","w","a","s"," ","t","h","e"," ","l","a","s","t">>,
    <<"S","t","a","r","t"," ","O","v","e","r">>,
    <<"r","e","s","t","a","r","t">>,
    <<" ","B","e","g","i","n","n","i","n","g"," ">>,
    <<"r","e","s","t","a","r","t"," ","a","g","a","i","n">>,
    <<"b","a","c","k"," ","t","o"," ","t","h","e"," ","b","e","g","i","n","n","i","n","g">>,
    <<"h","e","l","l","o">>}

NavBlocks ==
    {Block("voice", sid, sessions[sid], trim(toLowerCase(text)), TRUE,
           onTranscription(sid, [isFinal |-> TRUE, text |-> text])) :
        sid \in transcriptionCleanups, text \in NavTexts}

\* the block is the handler of a command received in phase building
InBuilding(b) == b.obj # NoObj /\ heap[b.obj].state = "building"

\* C29: in phase building, a command containing repeat, again or what and
\* none of next, continue, forward, back, previous, last leaves the phase,
\* the step index, the active project and the catalog as they are.
C29_RepeatKeepsState ==
    \A b \in NavBlocks :
        (/\ InBuilding(b)
         /\ isRepeatCommand(b.cmd)
         /\ ~isNextCommand(b.cmd) /\ ~isBackCommand(b.cmd)) =>
            /\ b.w.heap[b.obj].state = "building"
            /\ b.w.heap[b.obj].currentStep = heap[b.obj].currentStep
            /\ b.w.heap[b.obj].currentProject = heap[b.obj].currentProject
            /\ b.w.heap[b.obj].availableProjects = heap[b.obj].availableProjects
            /\ b.w.projectCache = projectCache

C29_Witness ==
    \E b \in NavBlocks :
        /\ InBuilding(b)
        /\ b.cmd = <<"w","h","a","t">>
        /\ heap[b.obj].currentStep = 1
        /\ b.w.shown = <<[pid |-> heap[b.obj].currentProject.id, idx |-> 1,
                          total |-> heap[b.obj].currentProject.totalSteps]>>
        /\ b.w.heap[b.obj].currentStep = 1

\* C30: in phase building at any index, a command containing "start over",
\* restart or beginning and no keyword of the next, back and repeat
\* families sets the step index to 0 and leaves the phase building and the
\* active project as they are.
C30_RestartToZero ==
    \A b \in NavBlocks :
        (/\ InBuilding(b)
         /\ isRestartCommand(b.cmd)
         /\ ~isNextCommand(b.cmd) /\ ~isBackCommand(b.cmd)
         /\ ~isRepeatCommand(b.cmd)) =>
            /\ b.w.heap[b.obj].currentStep = 0
            /\ b.w.heap[b.obj].state = "building"
            /\ b.w.heap[b.obj].currentProject = heap[b.obj].currentProject

C30_Witness ==
    \E b \in NavBlocks :
        /\ InBuilding(b)
        /\ b.cmd = <<"b","e","g","i","n","n","i","n","g">>
        /\ heap[b.obj].currentStep = 1
        /\ b.w.heap[b.obj].currentStep = 0
        /\ b.w.heap[b.obj].state = "building"

\* transcripts with and without the keywords of the four phases
PhaseTexts == {
    <<"n","e","w">>,
    <<"A","n","o","t","h","e","r"," ","o","n","e">>,
    <<"a"," ","d","i","f","f","e","r","e","n","t"," ","k","i","t">>,
    <<"w","h","a","t"," ","n","e","x","t">>,
    <<"h","e","l","l","o">>,
    <<"r","e","s","t","a","r","t">>,
    <<"g","o"," ","o","n">>,
    <<"y","e","s">>}

\* the handler of a final transcript of T, for every session that has a
\* transcription handler
TextBlocks(T) ==
    {Block("voice", sid, sessions[sid], trim(toLowerCase(text)), TRUE,
           onTranscription(sid, [isFinal |-> TRUE, text |-> text])) :
        sid \in transcriptionCleanups, text \in T}

InPhase(b, phase) == b.obj # NoObj /\ heap[b.obj].state = phase

\* C31: in phase completed, a command containing new, another or different
\* moves the session to selecting, sets the step index to 0 and clears the
\* active project, and leaves the session's catalog as it is.
C31_NewFromCompleted ==
    \A b \in TextBlocks(PhaseTexts) :
        InPhase(b, "completed") /\ isNewCommand(b.cmd) =>
            /\ b.w.heap[b.obj].state = "selecting"
            /\ b.w.heap[b.obj].currentStep = 0
            /\ b.w.heap[b.obj].currentProject = NoProject
            /\ b.w.heap[b.obj].availableProjects = heap[b.obj].availableProjects

C31_Witness ==
    \E b \in TextBlocks(PhaseTexts) :
        /\ InPhase(b, "completed")
        /\ b.cmd = <<"a","n","o","t","h","e","r"," ","o","n","e">>
        /\ heap[b.obj].currentStep > 0
        /\ heap[b.obj].availableProjects # EmptyMap
        /\ b.w.heap[b.obj].state = "selecting"
        /\ b.w.heap[b.obj].currentStep = 0

\* the command has no transition in the phase of its session: no
\* navigation keyword in building, no new-project keyword in completed, no
\* project under the current barcode or the hosted id in selecting
NoTransition(b) ==
    \/ /\ InPhase(b, "building")
       /\ ~isNextCommand(b.cmd) /\ ~isBackCommand(b.cmd)
       /\ ~isRepeatCommand(b.cmd) /\ ~isRestartCommand(b.cmd)
    \/ InPhase(b, "completed") /\ ~isNewCommand(b.cmd)
    \/ /\ InPhase(b, "selecting")
       /\ \/ CURRENT_BARCODE = Null
          \/ BarcodeId(CURRENT_BARCODE) \notin DOMAIN heap[b.obj].availableProjects
       /\ S3Id \notin DOMAIN heap[b.obj].availableProjects

\* C32: a command without transition in the phase of its session leaves
\* the phase, the step index, the active project and the catalog of the
\* session as they are and raises no error.
C32_NoTransitionNoOp ==
    \A b \in TextBlocks(PhaseTexts) :
        NoTransition(b) =>
            /\ b.w.heap[b.obj] = heap[b.obj]
            /\ b.w.sessions = sessions
            /\ b.w.shown = <<>>
            /\ ~b.w.threw

C32_Witness ==
    \E b \in TextBlocks(PhaseTexts) :
        /\ InPhase(b, "selecting")
        /\ NoTransition(b)
        /\ heap[b.obj].availableProjects # EmptyMap
        /\ b.cmd = <<"y","e","s">>
        /\ b.w.heap[b.obj].state = "selecting"

\* the same for a command without keyword in building
C32_WitnessBuilding ==
    \E b \in TextBlocks(PhaseTexts) :
        /\ InPhase(b, "building")
        /\ NoTransition(b)
        /\ b.cmd = <<"h","e","l","l","o">>
        /\ b.w.heap[b.obj] = heap[b.obj]

\* C33: handling an event of one session (a command, a tool call, a settling
\* resolution, the hosted-data load, a connect or disconnect) leaves the
\* entry, the phase, the step index, the active project and the catalog of
\* every other session as they are.
C33_SessionsIsolated ==
    \A b \in Blocks : \A other \in DOMAIN sessions \ {b.sid} :
        /\ b.w.sessions[other] = sessions[other]
        /\ sessions[other] # NoObj =>
                b.w.heap[sessions[other]] = heap[sessions[other]]

C33_Witness ==
    \E b \in SettleBlocks :
        /\ b.sid = "s1"
        /\ sessions["s2"] # NoObj
        /\ heap[sessions["s2"]].state = "building"
        /\ b.w.heap[b.obj].state = "building"
        /\ b.w.heap[b.obj] # heap[b.obj]
        /\ b.w.heap[sessions["s2"]] = heap[sessions["s2"]]

\* C34: a session has an active project exactly when its phase is building
\* or completed; in welcome and selecting the active project is unset.
C34_ProjectIffActivePhase ==
    \A o \in Objs :
        heap[o].currentProject # NoProject
            <=> heap[o].state \in {"building", "completed"}

C34_Witness ==
    \E o \in Objs :
        /\ heap[o].state = "selecting"
        /\ heap[o].currentProject = NoProject
        /\ heap[o].availableProjects # EmptyMap
        /\ \E sid \in DOMAIN sessions : sessions[sid] = o

\* the block calls processVoiceCommandWithAI for its session
StartsResolution(b) == b.w.resolve # NoCall /\ b.obj # NoObj

\* C35: a session never returns to phase welcome after leaving it, and a
\* resolution is started only while its session is in phase welcome; so
\* after a new-project command no resolution is started for the session.
C35_ResolveOnlyInWelcome ==
    /\ \A b \in Blocks : \A o \in Objs :
        (heap[o].state # "welcome" /\ b.w.heap[o] # Free) =>
            b.w.heap[o].state # "welcome"
    /\ \A b \in Blocks :
        StartsResolution(b) => heap[b.obj].state = "welcome"

\* the block is the handler of a tool call, or a handler of a command with
\* a navigation keyword
Navigation(b) ==
    \/ b.op \in ToolIds
    \/ isNextCommand(b.cmd) \/ isBackCommand(b.cmd) \/ isRestartCommand(b.cmd)

\* C36: while a session is in phase building with active project P, every
\* block leaves P active, and only the session's commands and tool calls
\* change the step index: a resolution that settles later neither resets
\* the index nor replaces P.
C36_BuildingStable ==
    \A b \in Blocks :
        (b.obj # NoObj /\ heap[b.obj].state = "building") =>
            /\ b.w.heap[b.obj].currentProject = heap[b.obj].currentProject
            /\ ~Navigation(b) =>
                    b.w.heap[b.obj].currentStep = heap[b.obj].currentStep

\* the handlers of the next_step and previous_step tool calls that find a
\* session
StepToolBlocks ==
    {b \in Blocks : b.op \in {"next_step", "previous_step"} /\ b.obj # NoObj}

StepInRange(st) ==
    st.currentProject # NoProject => InRange(st.currentProject, st.currentStep)

\* C37: the next_step and previous_step tool calls never change the phase
\* and keep the step index within [0, totalSteps - 1]; next_step at the last
\* index changes nothing; both move the index only in phase building.
C37_ToolStepsInBuilding ==
    \A b \in StepToolBlocks :
        LET st == heap[b.obj]
            st2 == b.w.heap[b.obj]
        IN /\ st2.state = st.state
           /\ st2.currentProject = st.currentProject
           /\ StepInRange(st) => StepInRange(st2)
           /\ (/\ b.op = "next_step"
               /\ st.currentProject # NoProject
               /\ st.currentStep = st.currentProject.totalSteps - 1) => st2 = st
           /\ st.state # "building" => st2.currentStep = st.currentStep

\* the function whose call is the last of the call trace c
LastCall(c) == c[Len(c)].fn

\* the resolve call returns the Project of the secondary provider
ReturnsSecondary(p) ==
    p.result # NoProject /\ LastCall(p.calls) = "searchWithExa"

Uploads(w) == {j \in 1..Len(w.tasks) : w.tasks[j].pc = "upload"}

\* C38: the resolution cache is written only on the normal path, after a
\* title was identified and steps were synthesized: a resolve call that
\* returns absent or the 3-step Project of the secondary provider leaves the
\* cache as it is and uploads nothing.
C38_CacheOnlyOnNormalPath ==
    /\ \A r \in Resolving :
        LET p == Pipeline(tasks[r.i].barcode, r.o)
            w == pipelineDone(r.i, r.o)
        IN /\ (p.result = NoProject \/ ReturnsSecondary(p)) =>
                /\ w.settled = p.result
                /\ w.projectCache = projectCache
                /\ Cardinality(Uploads(w)) = Cardinality(At("upload"))
           /\ w.projectCache # projectCache =>
                /\ r.o.title # <<>>
                /\ LastCall(p.calls) = "generateInstructionsFromPDF"
    /\ \A b \in Blocks :
        b.w.projectCache # projectCache => b.op = "pipelineDone"

C38_Witness ==
    \E r \in Resolving :
        LET p == Pipeline(tasks[r.i].barcode, r.o)
            w == pipelineDone(r.i, r.o)
        IN /\ ReturnsSecondary(p)
           /\ p.result.totalSteps = 3
           /\ w.settled = p.result
           /\ w.heap[tasks[r.i].obj].currentProject = p.result
           /\ w.projectCache[tasks[r.i].barcode] = NoProject
           /\ Uploads(w) = {}

\* the handlers of a command that end because processVoiceCommandWithAI
\* returned null (line 1057) or because no barcode is available (line 1052)
AbsentBlocks ==
    {b \in Blocks :
        /\ b.obj # NoObj
        /\ \/ b.w.settled = NoProject
           \/ b.op = "barcodeDone" /\ b.w.CURRENT_BARCODE = Null}

\* after block b, the final command data of the same session awaits the
\* barcode or calls processVoiceCommandWithAI
Retries(b, data) ==
    LET w0 == [b.w EXCEPT !.resolve = NoCall, !.settled = Unsettled]
        w2 == handleVoiceTranscription(w0, b.sid, data)
    IN \/ w2.resolve # NoCall
       \/ /\ Len(w2.tasks) = Len(w0.tasks) + 1
          /\ w2.tasks[Len(w2.tasks)].kind = "voice"
          /\ w2.tasks[Len(w2.tasks)].pc = "barcode"

\* C39: when the resolution of a command returns absent, or no barcode is
\* available, the session stays in welcome with its catalog, step index and
\* stepsGenerated flag unchanged, and its next final command starts a new
\* resolution attempt.
C39_AbsentStaysWelcome ==
    \A b \in AbsentBlocks :
        /\ b.w.heap[b.obj] = heap[b.obj]
        /\ (/\ heap[b.obj].state = "welcome"
            /\ b.w.sessions[b.sid] = b.obj
            /\ b.sid \in b.w.transcriptionCleanups) =>
                \A text \in PhaseTexts :
                    Retries(b, [isFinal |-> TRUE, text |-> text])

\* the calls of loadS3Data suspended in the request of fetchProductData
Loads == {i \in At("data") : tasks[i].kind = "loadS3"}

\* the session that called loadS3Data has disconnected: its id has no entry,
\* or a later onSession for the same id has started a load of its own
Disconnected(i) ==
    \/ sessions[tasks[i].sid] = NoObj
    \/ \E j \in Loads : j > i /\ tasks[j].sid = tasks[i].sid

Catalogs(w) == [o \in Objs |-> w.heap[o].availableProjects]

\* C40: a load of the hosted dataset that completes after its session has
\* disconnected neither recreates the session entry nor adds a project to
\* any catalog; one that completes while the session exists adds exactly
\* the project s3_product and changes neither the phase nor the step index.
C40_LoadAfterDisconnect ==
    \A i \in Loads, resp \in DataResponses :
        LET w == dataDone(i, resp)
            o == sessions[tasks[i].sid]
        IN /\ Disconnected(i) =>
                w.sessions = sessions /\ Catalogs(w) = Catalogs(World)
           /\ o # NoObj =>
                /\ w.heap[o].state = heap[o].state
                /\ w.heap[o].currentStep = heap[o].currentStep
                /\ w.heap[o].currentProject = heap[o].currentProject
                /\ \A id \in DOMAIN w.heap[o].availableProjects :
                    \/ id = S3Id /\ resp # NoData
                    \/ /\ id \in DOMAIN heap[o].availableProjects
                       /\ w.heap[o].availableProjects[id] = heap[o].availableProjects[id]
                /\ ~Disconnected(i) /\ resp # NoData =>
                        S3Id \in DOMAIN w.heap[o].availableProjects

====
